---- MODULE Spec2Model ----
(***************************************************************************)
(* Verification model of vibe-chat.                                        *)
(*                                                                         *)
(* Part I   the realtime relay, apps/server/src/websocket/index.ts: the    *)
(*          two process-wide registries, one action per envelope type and  *)
(*          one action per continuation of a handler after an await.       *)
(* Part II  the channel key broker, apps/web/src/lib/channelCrypto.ts with *)
(*          keyStore.ts, crypto.ts and the sender-key routes.              *)
(***************************************************************************)
EXTENDS Integers, Sequences, FiniteSets, TLC

\* ------------------------------------------------------------------ bounds
\* Frames the relay receives in one behaviour.
MaxFrames == 4

\* ------------------------------------------------------- small input sets
Socks == {"s1", "s2"}
UserIds == {"u1", "u2"}
Chans == {"c1", "c2"}
Ciphertexts == {"ct"}
MessageIds == {"m1"}
Emojis == {"e1"}
NoSock == "none"
UnknownReactionId == 0

\* Calls of ensureChannelKey started in one behaviour.
MaxCalls == 2

\* Key-bundle requests made directly in one behaviour.
MaxBundleFetches == 3

\* Registered users; each has one device, named after its user.
KeyUsers == {"a", "b", "c"}
\* The devices on which ensureChannelKey runs, and the member lists it is
\* handed: the channel's roster, or the empty list of a roster not yet loaded.
Callers == {"a", "b"}
Rosters == {{}, Callers}
KeyChans == {"k1"}
\* the order in which a member list is iterated
MemberOrder == <<"a", "b", "c">>
WrapIvs == {"iv"}
PreKeyPoolSize == 10
NoKey == [none |-> TRUE]
NoRecord == [none |-> TRUE]
\* the preKey field of a bundle when no pre-key row was deleted (null)
NoPreKey == 0

VARIABLES
    readyState,          \* socket.readyState: "OPEN" | "CLOSING" | "CLOSED"
    socketUsers,         \* Map<WebSocket, {userId, channelIds}>
    channelConnections,  \* Map<channelId, Set<WebSocket>>
    messages,            \* rows of the messages table, in insertion order
    reactions,           \* rows of the reactions table
    nextReactionId,      \* next id the reactions table hands out
    pending,             \* handlers suspended at an await
    nframes,             \* frames received so far
    out,                 \* socket -> envelopes handed to socket.send by the last step
    delivered            \* socket -> ids of the message:new envelopes sent to it, in order

serverVars == <<readyState, socketUsers, channelConnections, messages, reactions,
                nextReactionId, pending, nframes, out, delivered>>

VARIABLES
    identity,            \* device -> the "local" row of its identity table, or NoKey
    channelKeys,         \* device -> channelId -> keyBase64 of the channelKeys table, or NoKey
    userKeys,            \* device -> userId -> cached identityKeyPublic, or NoKey
    senderKeys,          \* rows of the server's sender_keys table
    preKeys,             \* userId -> keyIds left in the server's pre_keys table
    nextKey,             \* raw key material the next generateChannelKey yields
    nextDistributionId,  \* the next crypto.randomUUID()
    calls                \* the ensureChannelKey calls, in start order

keyVars == <<identity, channelKeys, userKeys, senderKeys, preKeys, nextKey,
             nextDistributionId, calls>>

VARIABLES
    bundleFetches,       \* the requests GET /users/:userId/keys made directly, in order
    rendered,            \* what decryptChannelMessage returned: {call, blob, result}
    submitted,           \* what handleSubmit passed to wsClient.sendMessage
    roundTrip            \* one encryptMessage call and the decryptMessage call on its output

VARIABLES
    sockets,             \* every WebSocket the client created, in order: its readyState
                         \* and the userId its handlers closed over
    ws,                  \* this.ws: an index into sockets, or NoWs for null
    reconnectAttempts,   \* this.reconnectAttempts
    wsUserId,            \* this.userId, or NoUserId for null
    joinedChannels,      \* this.joinedChannels
    timeouts,            \* the setTimeout calls of attemptReconnect, in order
    relay,               \* socket index -> the relay's registry entries for that connection
    clientOut,           \* the frames the last step handed to a socket's send
    emitted              \* the message types emit has passed to handlers

wsVars == <<sockets, ws, reconnectAttempts, wsUserId, joinedChannels, timeouts, relay,
            clientOut, emitted>>

vars == <<serverVars, keyVars, bundleFetches, rendered, submitted, roundTrip, wsVars>>

\* ------------------------------------------------------------- envelopes
ErrorEnv(msg) == [type |-> "error", message |-> msg]
AuthSuccess == [type |-> "auth:success"]
ChannelJoined(c) == [type |-> "channel:joined", channelId |-> c]
MessageNew(id, c, u, ct) ==
    [type |-> "message:new", id |-> id, channelId |-> c, senderId |-> u, ciphertext |-> ct]
TypingUpdate(c, u, b) ==
    [type |-> "typing:update", channelId |-> c, userId |-> u, isTyping |-> b]
ReactionAdded(rid, m, u, e) ==
    [type |-> "reaction:added", reactionId |-> rid, messageId |-> m, userId |-> u, emoji |-> e]
ReactionRemoved(rid, m, u, e) ==
    [type |-> "reaction:removed", reactionId |-> rid, messageId |-> m, userId |-> u, emoji |-> e]

NoOut == [s \in Socks |-> <<>>]
SendTo(s, env) == [NoOut EXCEPT ![s] = <<env>>]

\* ------------------------------------------------------------ Map helpers
MapSet(m, k, v) == [x \in (DOMAIN m) \cup {k} |-> IF x = k THEN v ELSE m[x]]
MapDelete(m, k) == [x \in (DOMAIN m) \ {k} |-> m[x]]

\* channelConnections.get(channelId), {} standing for undefined
ChannelSockets(c) == IF c \in DOMAIN channelConnections THEN channelConnections[c] ELSE {}

\* channelConnections.get(channelId)?.delete(socket)
DeleteFromChannel(cc, c, s) == IF c \in DOMAIN cc THEN [cc EXCEPT ![c] = @ \ {s}] ELSE cc

\* variant that forgets excludeSocket
broadcastToChannelAll(c, env, excludeSocket) ==
    [t \in Socks |->
        IF t \in ChannelSockets(c) /\ readyState[t] = "OPEN" THEN <<env>> ELSE <<>>]

\* broadcastToChannel(channelId, message, excludeSocket): the envelopes it sends
broadcastToChannel(c, env, excludeSocket) ==
    [t \in Socks |->
        IF t \in ChannelSockets(c) /\ t # excludeSocket /\ readyState[t] = "OPEN"
        THEN <<env>> ELSE <<>>]

\* variant of the loop without the readyState test
FanOutAnyState(c, env) ==
    [t \in Socks |-> IF t \in ChannelSockets(c) THEN <<env>> ELSE <<>>]

\* the loop of message:send over channelConnections.get(channelId)
FanOut(c, env) ==
    [t \in Socks |->
        IF t \in ChannelSockets(c) /\ readyState[t] = "OPEN" THEN <<env>> ELSE <<>>]

\* ------------------------------------------- the client's WebSocketClient
\* WebSockets one client creates in one behaviour.
MaxSockets == 6
\* Calls of wsClient.connect by the page in one behaviour.
MaxConnects == 2
MaxReconnectAttempts == 5
NoWs == 0
NoUserId == "none"
ClientUserIds == {"u1", "u2"}
\* message types the relay sends to a client
ServerTypes == {"message:new"}
NothingSent == [sock |-> NoWs, frames |-> << >>]
\* the relay's entries for a connection it has just accepted
NoRelayEntry == [userId |-> NoUserId, channelIds |-> {}, connections |-> {}]

\* wsClient as constructed (websocket.ts lines 9-14)
InitWs ==
    /\ sockets = << >>
    /\ ws = NoWs
    /\ reconnectAttempts = 0
    /\ wsUserId = NoUserId
    /\ joinedChannels = {}
    /\ timeouts = << >>
    /\ relay = << >>
    /\ clientOut = NothingSent
    /\ emitted = {}

\* ------------------------------------------------------------------ Init
\* The relay right after the clients of Socks connected: both registries are
\* empty (lines 7 and 10) and no frame has been received.
InitServer ==
    /\ readyState = [s \in Socks |-> "OPEN"]
    /\ socketUsers = << >>
    /\ channelConnections = << >>
    /\ messages = << >>
    /\ reactions = {}
    /\ nextReactionId = 1
    /\ pending = {}
    /\ nframes = 0
    /\ out = NoOut
    /\ delivered = [s \in Socks |-> << >>]

\* ------------------------------------------------------------------- Init
\* Every user registered; a device holds the identity keys of its user, or
\* none when its user logged in on it without registering there.
InitKeys ==
    /\ identity \in {f \in [KeyUsers -> {[userId |-> u] : u \in KeyUsers} \cup {NoKey}] :
                        \A d \in KeyUsers :
                           f[d] \in {[userId |-> d]} \cup (IF d \in Callers THEN {NoKey} ELSE {})}
    /\ channelKeys = [d \in KeyUsers |-> [c \in KeyChans |-> NoKey]]
    /\ userKeys = [d \in KeyUsers |-> [u \in KeyUsers |-> NoKey]]
    /\ senderKeys = {}
    /\ preKeys = [u \in KeyUsers |-> 1..PreKeyPoolSize]
    /\ nextKey = 1
    /\ nextDistributionId = 1
    /\ calls = << >>
    /\ bundleFetches = << >>
    /\ rendered = {}
    /\ submitted = {}
    /\ roundTrip = [pc |-> "idle"]
    /\ InitWs

Init == InitServer /\ InitKeys

\* Every device has stored the identity keys of its user (Register.tsx).
Enrolled == \A d \in KeyUsers : identity[d] = [userId |-> d]

\* The relay is observed with the clients' key stores in one fixed state.
InitRelay == Init /\ Enrolled

\* A frame arrives on an open socket: the guard every message handler shares.
Receives(s) == readyState[s] = "OPEN" /\ nframes < MaxFrames

\* case "auth"
Auth(s, u) ==
    /\ Receives(s)
    /\ nframes' = nframes + 1
    /\ socketUsers' = MapSet(socketUsers, s, [userId |-> u, channelIds |-> {}])
    /\ out' = SendTo(s, AuthSuccess)
    /\ UNCHANGED <<readyState, channelConnections, messages, reactions,
                   nextReactionId, pending, delivered>>
    /\ UNCHANGED <<keyVars, bundleFetches, rendered, submitted, roundTrip, wsVars>>

\* variant whose second join of a channel takes the socket out again
ChannelJoinToggle(s, c) ==
    /\ Receives(s)
    /\ nframes' = nframes + 1
    /\ IF s \notin DOMAIN socketUsers
       THEN /\ out' = SendTo(s, ErrorEnv("Not authenticated"))
            /\ UNCHANGED <<socketUsers, channelConnections>>
       ELSE /\ channelConnections' =
                  MapSet(channelConnections, c,
                         IF s \in ChannelSockets(c) THEN ChannelSockets(c) \ {s}
                         ELSE ChannelSockets(c) \cup {s})
            /\ socketUsers' = [socketUsers EXCEPT ![s].channelIds = @ \cup {c}]
            /\ out' = SendTo(s, ChannelJoined(c))
    /\ UNCHANGED <<readyState, messages, reactions, nextReactionId, pending, delivered>>
    /\ UNCHANGED <<keyVars, bundleFetches, rendered, submitted, roundTrip, wsVars>>

\* case "channel:join"
ChannelJoin(s, c) ==
    /\ Receives(s)
    /\ nframes' = nframes + 1
    /\ IF s \notin DOMAIN socketUsers
       THEN /\ out' = SendTo(s, ErrorEnv("Not authenticated"))
            /\ UNCHANGED <<socketUsers, channelConnections>>
       ELSE /\ channelConnections' = MapSet(channelConnections, c, ChannelSockets(c) \cup {s})
            /\ socketUsers' = [socketUsers EXCEPT ![s].channelIds = @ \cup {c}]
            /\ out' = SendTo(s, ChannelJoined(c))
    /\ UNCHANGED <<readyState, messages, reactions, nextReactionId, pending, delivered>>
    /\ UNCHANGED <<keyVars, bundleFetches, rendered, submitted, roundTrip, wsVars>>

\* case "channel:leave"
ChannelLeave(s, c) ==
    /\ Receives(s)
    /\ nframes' = nframes + 1
    /\ IF s \in DOMAIN socketUsers
       THEN /\ channelConnections' = DeleteFromChannel(channelConnections, c, s)
            /\ socketUsers' = [socketUsers EXCEPT ![s].channelIds = @ \ {c}]
       ELSE UNCHANGED <<socketUsers, channelConnections>>
    /\ out' = NoOut
    /\ UNCHANGED <<readyState, messages, reactions, nextReactionId, pending, delivered>>
    /\ UNCHANGED <<keyVars, bundleFetches, rendered, submitted, roundTrip, wsVars>>

\* case "message:send", up to the first await (the insert is issued)
MessageSend(s, c, ct) ==
    /\ Receives(s)
    /\ nframes' = nframes + 1
    /\ IF s \notin DOMAIN socketUsers
       THEN /\ out' = SendTo(s, ErrorEnv("Not authenticated"))
            /\ UNCHANGED pending
       ELSE /\ pending' = pending \cup
                  {[kind |-> "message:send", n |-> nframes + 1, sock |-> s, channelId |-> c,
                    userId |-> socketUsers[s].userId, ciphertext |-> ct,
                    pc |-> "insert", id |-> 0]}
            /\ out' = NoOut
    /\ UNCHANGED <<readyState, socketUsers, channelConnections, messages, reactions,
                   nextReactionId, delivered>>
    /\ UNCHANGED <<keyVars, bundleFetches, rendered, submitted, roundTrip, wsVars>>

\* db.insert(messages) resolves: the row exists, the handler goes on to the lookup
MessageInserted(h) ==
    /\ h \in pending /\ h.kind = "message:send" /\ h.pc = "insert"
    /\ messages' = Append(messages, [id |-> Len(messages) + 1, channelId |-> h.channelId,
                                     senderId |-> h.userId, ciphertext |-> h.ciphertext])
    /\ pending' = (pending \ {h}) \cup {[h EXCEPT !.pc = "lookup", !.id = Len(messages) + 1]}
    /\ out' = NoOut
    /\ UNCHANGED <<readyState, socketUsers, channelConnections, reactions,
                   nextReactionId, nframes, delivered>>
    /\ UNCHANGED <<keyVars, bundleFetches, rendered, submitted, roundTrip, wsVars>>

\* an awaited query of handleMessage rejects: the catch of socket.on("message")
HandlerThrows(h) ==
    /\ pending' = pending \ {h}
    /\ out' = SendTo(h.sock, ErrorEnv("Invalid message format"))
    /\ UNCHANGED <<readyState, socketUsers, channelConnections, messages, reactions,
                   nextReactionId, nframes, delivered>>
    /\ UNCHANGED <<keyVars, bundleFetches, rendered, submitted, roundTrip, wsVars>>

\* fail-open variant: the fan-out runs although the insert rejected
MessageInsertFailsOpen(h) ==
    /\ h \in pending /\ h.kind = "message:send" /\ h.pc = "insert"
    /\ pending' = pending \ {h}
    /\ out' = FanOut(h.channelId,
                     MessageNew(Len(messages) + 1, h.channelId, h.userId, h.ciphertext))
    /\ delivered' = [t \in Socks |->
                        IF out'[t] # << >> THEN Append(delivered[t], Len(messages) + 1)
                        ELSE delivered[t]]
    /\ UNCHANGED <<readyState, socketUsers, channelConnections, messages, reactions,
                   nextReactionId, nframes>>
    /\ UNCHANGED <<keyVars, bundleFetches, rendered, submitted, roundTrip, wsVars>>

\* db.insert(messages) rejects
MessageInsertFails(h) ==
    /\ h \in pending /\ h.kind = "message:send" /\ h.pc = "insert"
    /\ HandlerThrows(h)

\* db.query.users.findFirst rejects after the row was stored
SenderLookupFails(h) ==
    /\ h \in pending /\ h.kind = "message:send" /\ h.pc = "lookup"
    /\ HandlerThrows(h)

\* variant that reads the connection's user again at the fan-out
MessageBroadcastRebound(h) ==
    /\ h \in pending /\ h.kind = "message:send" /\ h.pc = "lookup"
    /\ pending' = pending \ {h}
    /\ out' = FanOut(h.channelId,
                     MessageNew(h.id, h.channelId,
                                IF h.sock \in DOMAIN socketUsers
                                THEN socketUsers[h.sock].userId ELSE h.userId,
                                h.ciphertext))
    /\ delivered' = [t \in Socks |->
                        IF out'[t] # << >> THEN Append(delivered[t], h.id) ELSE delivered[t]]
    /\ UNCHANGED <<readyState, socketUsers, channelConnections, messages, reactions,
                   nextReactionId, nframes>>
    /\ UNCHANGED <<keyVars, bundleFetches, rendered, submitted, roundTrip, wsVars>>

\* db.query.users.findFirst resolves: the fan-out loop
MessageBroadcast(h) ==
    /\ h \in pending /\ h.kind = "message:send" /\ h.pc = "lookup"
    /\ pending' = pending \ {h}
    /\ out' = FanOut(h.channelId, MessageNew(h.id, h.channelId, h.userId, h.ciphertext))
    /\ delivered' = [t \in Socks |->
                        IF out'[t] # << >> THEN Append(delivered[t], h.id) ELSE delivered[t]]
    /\ UNCHANGED <<readyState, socketUsers, channelConnections, messages, reactions,
                   nextReactionId, nframes>>
    /\ UNCHANGED <<keyVars, bundleFetches, rendered, submitted, roundTrip, wsVars>>

\* case "typing:start" / "typing:stop"
Typing(s, c, isTyping) ==
    /\ Receives(s)
    /\ nframes' = nframes + 1
    /\ out' = IF s \in DOMAIN socketUsers
              THEN broadcastToChannel(c, TypingUpdate(c, socketUsers[s].userId, isTyping), s)
              ELSE NoOut
    /\ UNCHANGED <<readyState, socketUsers, channelConnections, messages, reactions,
                   nextReactionId, pending, delivered>>
    /\ UNCHANGED <<keyVars, bundleFetches, rendered, submitted, roundTrip, wsVars>>

TypingStart(s, c) == Typing(s, c, TRUE)

TypingStop(s, c) == Typing(s, c, FALSE)

\* case "reaction:add", up to the first await (the duplicate check is issued)
ReactionAdd(s, c, m, e) ==
    /\ Receives(s)
    /\ nframes' = nframes + 1
    /\ IF s \notin DOMAIN socketUsers
       THEN /\ out' = SendTo(s, ErrorEnv("Not authenticated"))
            /\ UNCHANGED pending
       ELSE /\ pending' = pending \cup
                  {[kind |-> "reaction:add", n |-> nframes + 1, sock |-> s, channelId |-> c,
                    userId |-> socketUsers[s].userId, messageId |-> m, emoji |-> e,
                    pc |-> "check"]}
            /\ out' = NoOut
    /\ UNCHANGED <<readyState, socketUsers, channelConnections, messages, reactions,
                   nextReactionId, delivered>>
    /\ UNCHANGED <<keyVars, bundleFetches, rendered, submitted, roundTrip, wsVars>>

\* db.query.reactions.findFirst resolves
ReactionChecked(h) ==
    /\ h \in pending /\ h.kind = "reaction:add" /\ h.pc = "check"
    /\ IF \E r \in reactions :
              r.messageId = h.messageId /\ r.userId = h.userId /\ r.emoji = h.emoji
       THEN /\ pending' = pending \ {h}
            /\ out' = SendTo(h.sock, ErrorEnv("Reaction already exists"))
       ELSE /\ pending' = (pending \ {h}) \cup {[h EXCEPT !.pc = "insert"]}
            /\ out' = NoOut
    /\ UNCHANGED <<readyState, socketUsers, channelConnections, messages, reactions,
                   nextReactionId, nframes, delivered>>
    /\ UNCHANGED <<keyVars, bundleFetches, rendered, submitted, roundTrip, wsVars>>

\* db.insert(reactions) resolves: broadcast to the channel, sender included
ReactionInserted(h) ==
    /\ h \in pending /\ h.kind = "reaction:add" /\ h.pc = "insert"
    /\ reactions' = reactions \cup
          {[id |-> nextReactionId, messageId |-> h.messageId, userId |-> h.userId,
            emoji |-> h.emoji]}
    /\ nextReactionId' = nextReactionId + 1
    /\ pending' = pending \ {h}
    /\ out' = broadcastToChannel(h.channelId,
                 ReactionAdded(nextReactionId, h.messageId, h.userId, h.emoji), NoSock)
    /\ UNCHANGED <<readyState, socketUsers, channelConnections, messages, nframes, delivered>>
    /\ UNCHANGED <<keyVars, bundleFetches, rendered, submitted, roundTrip, wsVars>>

\* either awaited query of reaction:add rejects
ReactionAddFails(h) ==
    /\ h \in pending /\ h.kind = "reaction:add"
    /\ HandlerThrows(h)

\* case "reaction:remove", up to the await (the delete is issued)
ReactionRemove(s, c, rid, m, e) ==
    /\ Receives(s)
    /\ nframes' = nframes + 1
    /\ IF s \notin DOMAIN socketUsers
       THEN /\ out' = SendTo(s, ErrorEnv("Not authenticated"))
            /\ UNCHANGED pending
       ELSE /\ pending' = pending \cup
                  {[kind |-> "reaction:remove", n |-> nframes + 1, sock |-> s, channelId |-> c,
                    userId |-> socketUsers[s].userId, reactionId |-> rid, messageId |-> m,
                    emoji |-> e, pc |-> "delete"]}
            /\ out' = NoOut
    /\ UNCHANGED <<readyState, socketUsers, channelConnections, messages, reactions,
                   nextReactionId, delivered>>
    /\ UNCHANGED <<keyVars, bundleFetches, rendered, submitted, roundTrip, wsVars>>

\* db.delete(reactions) resolves
ReactionDeleted(h) ==
    /\ h \in pending /\ h.kind = "reaction:remove"
    /\ reactions' = {r \in reactions : r.id # h.reactionId}
    /\ pending' = pending \ {h}
    /\ out' = broadcastToChannel(h.channelId,
                 ReactionRemoved(h.reactionId, h.messageId, h.userId, h.emoji), NoSock)
    /\ UNCHANGED <<readyState, socketUsers, channelConnections, messages,
                   nextReactionId, nframes, delivered>>
    /\ UNCHANGED <<keyVars, bundleFetches, rendered, submitted, roundTrip, wsVars>>

\* db.delete(reactions) rejects
ReactionDeleteFails(h) ==
    /\ h \in pending /\ h.kind = "reaction:remove"
    /\ HandlerThrows(h)

\* the transport starts closing: readyState leaves OPEN before "close" is emitted
BeginClose(s) ==
    /\ readyState[s] = "OPEN"
    /\ readyState' = [readyState EXCEPT ![s] = "CLOSING"]
    /\ out' = NoOut
    /\ UNCHANGED <<socketUsers, channelConnections, messages, reactions,
                   nextReactionId, pending, nframes, delivered>>
    /\ UNCHANGED <<keyVars, bundleFetches, rendered, submitted, roundTrip, wsVars>>

\* socket.on("close") -> handleDisconnect(socket)
handleDisconnect(s) ==
    /\ readyState[s] = "CLOSING"
    /\ readyState' = [readyState EXCEPT ![s] = "CLOSED"]
    /\ IF s \in DOMAIN socketUsers
       THEN /\ channelConnections' =
                  [c \in DOMAIN channelConnections |->
                      IF c \in socketUsers[s].channelIds
                      THEN channelConnections[c] \ {s} ELSE channelConnections[c]]
            /\ socketUsers' = MapDelete(socketUsers, s)
       ELSE UNCHANGED <<socketUsers, channelConnections>>
    /\ out' = NoOut
    /\ UNCHANGED <<messages, reactions, nextReactionId, pending, nframes, delivered>>
    /\ UNCHANGED <<keyVars, bundleFetches, rendered, submitted, roundTrip, wsVars>>

ReactionIdsKnown == {r.id : r \in reactions} \cup {UnknownReactionId}

\* Frames and continuations that touch the registries, the messages table
\* and the typing broadcast.
NextServer ==
    \/ \E s \in Socks, u \in UserIds : Auth(s, u)
    \/ \E s \in Socks, c \in Chans : ChannelJoin(s, c)
    \/ \E s \in Socks, c \in Chans : ChannelLeave(s, c)
    \/ \E s \in Socks, c \in Chans, ct \in Ciphertexts : MessageSend(s, c, ct)
    \/ \E h \in pending : MessageInserted(h)
    \/ \E h \in pending : MessageInsertFails(h)
    \/ \E h \in pending : SenderLookupFails(h)
    \/ \E h \in pending : MessageBroadcast(h)
    \/ \E s \in Socks, c \in Chans : TypingStart(s, c)
    \/ \E s \in Socks, c \in Chans : TypingStop(s, c)
    \/ \E s \in Socks : BeginClose(s)
    \/ \E s \in Socks : handleDisconnect(s)

SpecServer == InitRelay /\ [][NextServer]_vars

\* The relay once connection s1 has authenticated as u1 and joined c1
\* (cases auth and channel:join); frames are counted from there.
InitJoined ==
    /\ readyState = [s \in Socks |-> "OPEN"]
    /\ socketUsers = MapSet(<< >>, "s1", [userId |-> "u1", channelIds |-> {"c1"}])
    /\ channelConnections = MapSet(<< >>, "c1", {"s1"})
    /\ messages = << >>
    /\ reactions = {}
    /\ nextReactionId = 1
    /\ pending = {}
    /\ nframes = 0
    /\ out = NoOut
    /\ delivered = [s \in Socks |-> << >>]
    /\ InitKeys
    /\ Enrolled

SpecJoined == InitJoined /\ [][NextServer]_vars

\* The reaction handlers read and write neither registry entries nor message
\* rows; they are explored with the frames that decide who hears a broadcast.
NextReactions ==
    \/ \E s \in Socks, u \in UserIds : Auth(s, u)
    \/ \E s \in Socks, c \in Chans : ChannelJoin(s, c)
    \/ \E s \in Socks, c \in Chans, m \in MessageIds, e \in Emojis : ReactionAdd(s, c, m, e)
    \/ \E h \in pending : ReactionChecked(h)
    \/ \E h \in pending : ReactionInserted(h)
    \/ \E h \in pending : ReactionAddFails(h)
    \/ \E s \in Socks, c \in Chans, rid \in ReactionIdsKnown, m \in MessageIds, e \in Emojis :
          ReactionRemove(s, c, rid, m, e)
    \/ \E h \in pending : ReactionDeleted(h)
    \/ \E h \in pending : ReactionDeleteFails(h)
    \/ \E s \in Socks : BeginClose(s)
    \/ \E s \in Socks : handleDisconnect(s)

SpecReactions == InitRelay /\ [][NextReactions]_vars

\* Frames that are not an envelope of the catalogue: text JSON.parse rejects,
\* an envelope of a known type without payload, a type no case matches.
MalformedKinds == {"unparseable", "no payload", "unknown type"}

\* socket.on("message") for such a frame: JSON.parse throws, or the
\* destructuring of message.payload at the head of the case throws, and the
\* catch answers; or the switch matches no case and handleMessage returns
MalformedFrame(s, kind) ==
    /\ Receives(s)
    /\ nframes' = nframes + 1
    /\ out' = IF kind = "unknown type" THEN NoOut
              ELSE SendTo(s, ErrorEnv("Invalid message format"))
    /\ UNCHANGED <<readyState, socketUsers, channelConnections, messages, reactions,
                   nextReactionId, pending, delivered>>
    /\ UNCHANGED <<keyVars, bundleFetches, rendered, submitted, roundTrip, wsVars>>

\* The frames that write the registries, with the frames that are no envelope.
NextEnvelopes ==
    \/ \E s \in Socks, u \in UserIds : Auth(s, u)
    \/ \E s \in Socks, c \in Chans : ChannelJoin(s, c)
    \/ \E s \in Socks, c \in Chans : ChannelLeave(s, c)
    \/ \E s \in Socks, kind \in MalformedKinds : MalformedFrame(s, kind)
    \/ \E s \in Socks : BeginClose(s)
    \/ \E s \in Socks : handleDisconnect(s)

SpecEnvelopes == InitRelay /\ [][NextEnvelopes]_vars

\* ================================================== Part II: key broker
\* ---------------------------------------------------------------- crypto.ts
\* An ECDH key pair of user u, and the secret two halves agree on.
PrivateKeyOf(u) == [priv |-> u]
PublicKeyOf(u) == [pub |-> u]

\* deriveSharedKey(privateKey, publicKey)
deriveSharedKey(privateKey, publicKey) == [ecdh |-> {privateKey.priv, publicKey.pub}]

\* exportAesKey / importAesKey: raw key material <-> its base64 text
exportAesKey(key) == [b64 |-> key.raw]
importAesKey(keyBase64) == [raw |-> keyBase64.b64]

\* encryptMessage(message, key) with the iv it drew; decryptMessage rejects
\* (NoKey stands for the thrown OperationError) when the tag does not verify.
encryptMessage(message, key, iv) == [iv |-> iv, sealedWith |-> key, text |-> message]
DecryptOk(blob, key) == blob.sealedWith = key
decryptMessage(blob, key) == IF DecryptOk(blob, key) THEN blob.text ELSE NoKey

\* encryptChannelKeyForRecipient(channelKey, senderPrivateKey, recipientPublicKeyBase64)
encryptChannelKeyForRecipient(channelKey, senderPrivateKey, recipientPublicKey, iv) ==
    encryptMessage(exportAesKey(channelKey),
                   deriveSharedKey(senderPrivateKey, recipientPublicKey), iv)

\* variant that derives the secret from the recipient's own public key
decryptChannelKeyOwnPub(encryptedChannelKey, recipientPrivateKey, senderPublicKey) ==
    LET sharedKey == deriveSharedKey(recipientPrivateKey,
                                     PublicKeyOf(recipientPrivateKey.priv))
        text == decryptMessage(encryptedChannelKey, sharedKey)
    IN  IF text = NoKey THEN NoKey ELSE importAesKey(text)

\* decryptChannelKey(encryptedChannelKey, recipientPrivateKey, senderPublicKeyBase64)
decryptChannelKey(encryptedChannelKey, recipientPrivateKey, senderPublicKey) ==
    LET sharedKey == deriveSharedKey(recipientPrivateKey, senderPublicKey)
        text == decryptMessage(encryptedChannelKey, sharedKey)
    IN  IF text = NoKey THEN NoKey ELSE importAesKey(text)

\* -------------------------------------------------------------- keyStore.ts
\* variant that never finds the stored row
getChannelKeyMiss(d, c) == NoKey

\* getChannelKey(channelId) on device d
getChannelKey(d, c) ==
    IF channelKeys[d][c] = NoKey THEN NoKey ELSE importAesKey(channelKeys[d][c])

\* storeChannelKey(channelId, keyBase64) on device d
storeChannelKey(d, c, keyBase64) == [channelKeys EXCEPT ![d][c] = keyBase64]

\* storeUserKey(userId, identityKeyPublic, ...) on device d
storeUserKey(d, u, identityKeyPublic) == [userKeys EXCEPT ![d][u] = identityKeyPublic]

\* ------------------------------------------------------------ server routes
\* GET /:channelId/sender-keys/:userId
SenderKeysFor(c, u) == {r \in senderKeys : r.channelId = c /\ r.forUserId = u}

\* GET /users/:userId/keys: the bundle's identityKey; the DELETE ... RETURNING
\* of the route removes every pre-key row of the user
BundleIdentityKey(u) == PublicKeyOf(u)

\* variant whose route reads a pre-key and deletes none
PreKeysKept(u) == preKeys

PreKeysAfterBundle(u) == [preKeys EXCEPT ![u] = {}]

\* GET /users/:userId/keys as a handler of its own: the user lookup, then the
\* DELETE ... RETURNING and the response, whose preKey is the first deleted row
\* (the statement fixes no order) or null.
BundleLookup(u) ==
    /\ Len(bundleFetches) < MaxBundleFetches
    /\ bundleFetches' = Append(bundleFetches, [userId |-> u, pc |-> "delete",
                                               identityKey |-> NoKey, preKey |-> NoPreKey])
    /\ UNCHANGED <<serverVars, keyVars, rendered, submitted, roundTrip, wsVars>>

BundleRespond(k) ==
    /\ k \in DOMAIN bundleFetches /\ bundleFetches[k].pc = "delete"
    /\ LET u == bundleFetches[k].userId
       IN  /\ \E pk \in (IF preKeys[u] = {} THEN {NoPreKey} ELSE preKeys[u]) :
                 bundleFetches' = [bundleFetches EXCEPT ![k] =
                                      [userId |-> u, pc |-> "done",
                                       identityKey |-> BundleIdentityKey(u), preKey |-> pk]]
           /\ preKeys' = PreKeysAfterBundle(u)
    /\ UNCHANGED <<identity, channelKeys, userKeys, senderKeys, nextKey, nextDistributionId,
                   calls, rendered, submitted, roundTrip, wsVars>>
    /\ UNCHANGED serverVars

NextBundles ==
    \/ \E u \in KeyUsers : BundleLookup(u)
    \/ \E k \in DOMAIN bundleFetches : BundleRespond(k)

SpecBundles == InitRelay /\ [][NextBundles]_vars

\* ------------------------------------------------------- channelCrypto.ts
CallIds == DOMAIN calls
Finished(i) == calls[i].pc \in {"done", "failed"}

SetCall(i, r) == [calls EXCEPT ![i] = r]

\* the first member of MemberOrder still in todo
NextMember(todo) ==
    MemberOrder[CHOOSE k \in DOMAIN MemberOrder :
                   /\ MemberOrder[k] \in todo
                   /\ \A j \in 1..(k - 1) : MemberOrder[j] \notin todo]

\* variant that goes on to the records request without the identity keys
EnsureChannelKeyUnchecked(d, c, members) ==
    /\ LET base == [dev |-> d, channelId |-> c, members |-> members,
                    after |-> {i \in CallIds : Finished(i)},
                    pc |-> "fetch", found |-> "unknown", branch |-> "none",
                    rec |-> NoRecord,
                    senderPublicKey |-> NoKey, generated |-> NoKey, persisted |-> FALSE,
                    todo |-> {}, encryptedKeys |-> {}, distributionId |-> 0,
                    key |-> NoKey, isNew |-> FALSE]
           existingKey == getChannelKey(d, c)
       IN  calls' = Append(calls,
              IF existingKey # NoKey
              THEN [base EXCEPT !.pc = "done", !.branch = "cached", !.key = existingKey]
              ELSE base)
    /\ UNCHANGED <<identity, channelKeys, userKeys, senderKeys, preKeys, nextKey,
                   nextDistributionId>>
    /\ UNCHANGED <<serverVars, bundleFetches, rendered, submitted, roundTrip, wsVars>>

\* ensureChannelKey is called: getChannelKey, then getIdentityKeys (lines 37-47)
EnsureChannelKey(d, c, members) ==
    /\ LET base == [dev |-> d, channelId |-> c, members |-> members,
                    after |-> {i \in CallIds : Finished(i)},
                    pc |-> "fetch", found |-> "unknown", branch |-> "none",
                    rec |-> NoRecord,
                    senderPublicKey |-> NoKey, generated |-> NoKey, persisted |-> FALSE,
                    todo |-> {}, encryptedKeys |-> {}, distributionId |-> 0,
                    key |-> NoKey, isNew |-> FALSE]
           existingKey == getChannelKey(d, c)
       IN  calls' = Append(calls,
              IF existingKey # NoKey
              THEN [base EXCEPT !.pc = "done", !.branch = "cached", !.key = existingKey]
              ELSE IF identity[d] = NoKey
                   THEN [base EXCEPT !.pc = "failed"]
                   ELSE base)
    /\ UNCHANGED <<identity, channelKeys, userKeys, senderKeys, preKeys, nextKey,
                   nextDistributionId>>
    /\ UNCHANGED <<serverVars, bundleFetches, rendered, submitted, roundTrip, wsVars>>

\* variant whose records request always yields the oldest round first
GetSenderKeysOldest(i) ==
    /\ i \in CallIds /\ calls[i].pc = "fetch"
    /\ LET rows == SenderKeysFor(calls[i].channelId, calls[i].dev)
       IN  IF rows = {}
           THEN calls' = SetCall(i, [calls[i] EXCEPT !.pc = "generate", !.found = "empty"])
           ELSE LET r == CHOOSE x \in rows :
                            \A y \in rows : x.distributionId <= y.distributionId
                IN  calls' = SetCall(i, [calls[i] EXCEPT !.pc = "peer", !.found = "record",
                                                        !.rec = r])
    /\ UNCHANGED <<identity, channelKeys, userKeys, senderKeys, preKeys, nextKey,
                   nextDistributionId>>
    /\ UNCHANGED <<serverVars, bundleFetches, rendered, submitted, roundTrip, wsVars>>

\* api.channels.getSenderKeys resolves (lines 50-54)
GetSenderKeysOk(i) ==
    /\ i \in CallIds /\ calls[i].pc = "fetch"
    /\ LET rows == SenderKeysFor(calls[i].channelId, calls[i].dev)
       IN  IF rows = {}
           THEN calls' = SetCall(i, [calls[i] EXCEPT !.pc = "generate", !.found = "empty"])
           ELSE \E r \in rows :
                   calls' = SetCall(i, [calls[i] EXCEPT !.pc = "peer", !.found = "record",
                                                       !.rec = r])
    /\ UNCHANGED <<identity, channelKeys, userKeys, senderKeys, preKeys, nextKey,
                   nextDistributionId>>
    /\ UNCHANGED <<serverVars, bundleFetches, rendered, submitted, roundTrip, wsVars>>

\* variant without the try/catch: the rejection leaves ensureChannelKey
FetchBranchThrows(i) ==
    /\ i \in CallIds /\ calls[i].pc \in {"fetch", "bundle"}
    /\ calls' = SetCall(i, [calls[i] EXCEPT
                               !.pc = "failed",
                               !.found = IF calls[i].pc = "fetch" THEN "error" ELSE @])
    /\ UNCHANGED <<identity, channelKeys, userKeys, senderKeys, preKeys, nextKey,
                   nextDistributionId>>
    /\ UNCHANGED <<serverVars, bundleFetches, rendered, submitted, roundTrip, wsVars>>

\* a request of the fetch branch rejects: the catch of line 88
FetchBranchFails(i) ==
    /\ i \in CallIds /\ calls[i].pc \in {"fetch", "bundle"}
    /\ calls' = SetCall(i, [calls[i] EXCEPT
                               !.pc = "generate",
                               !.found = IF calls[i].pc = "fetch" THEN "error" ELSE @])
    /\ UNCHANGED <<identity, channelKeys, userKeys, senderKeys, preKeys, nextKey,
                   nextDistributionId>>
    /\ UNCHANGED <<serverVars, bundleFetches, rendered, submitted, roundTrip, wsVars>>

\* getUserKey(senderKey.userId) (lines 57-59)
GetSenderPublicKey(i) ==
    /\ i \in CallIds /\ calls[i].pc = "peer"
    /\ LET cached == userKeys[calls[i].dev][calls[i].rec.userId]
       IN  calls' = SetCall(i,
              IF cached # NoKey
              THEN [calls[i] EXCEPT !.pc = "unwrap", !.senderPublicKey = cached]
              ELSE [calls[i] EXCEPT !.pc = "bundle"])
    /\ UNCHANGED <<identity, channelKeys, userKeys, senderKeys, preKeys, nextKey,
                   nextDistributionId>>
    /\ UNCHANGED <<serverVars, bundleFetches, rendered, submitted, roundTrip, wsVars>>

\* api.auth.getUserKeys(senderKey.userId) resolves, storeUserKey (lines 61-71)
FetchSenderBundle(i) ==
    /\ i \in CallIds /\ calls[i].pc = "bundle"
    /\ LET u == calls[i].rec.userId
       IN  /\ preKeys' = PreKeysAfterBundle(u)
           /\ userKeys' = storeUserKey(calls[i].dev, u, BundleIdentityKey(u))
           /\ calls' = SetCall(i, [calls[i] EXCEPT !.pc = "unwrap",
                                                   !.senderPublicKey = BundleIdentityKey(u)])
    /\ UNCHANGED <<identity, channelKeys, senderKeys, nextKey, nextDistributionId>>
    /\ UNCHANGED <<serverVars, bundleFetches, rendered, submitted, roundTrip, wsVars>>

\* variant that returns the unwrapped key without writing it to the store
UnwrapWithoutStore(i) ==
    /\ i \in CallIds /\ calls[i].pc = "unwrap"
    /\ LET channelKey == decryptChannelKey(calls[i].rec.encryptedKey,
                                           PrivateKeyOf(identity[calls[i].dev].userId),
                                           calls[i].senderPublicKey)
       IN  calls' = SetCall(i,
              IF channelKey = NoKey
              THEN [calls[i] EXCEPT !.pc = "generate"]
              ELSE [calls[i] EXCEPT !.pc = "done", !.branch = "fetched",
                                    !.key = channelKey, !.isNew = FALSE])
    /\ UNCHANGED <<identity, channelKeys, userKeys, senderKeys, preKeys, nextKey,
                   nextDistributionId>>
    /\ UNCHANGED <<serverVars, bundleFetches, rendered, submitted, roundTrip, wsVars>>

\* decryptChannelKey, exportAesKey, storeChannelKey, return (lines 75-86);
\* a failed unwrap lands in the catch of line 88
UnwrapAndStore(i) ==
    /\ i \in CallIds /\ calls[i].pc = "unwrap"
    /\ LET d == calls[i].dev
           channelKey == decryptChannelKey(calls[i].rec.encryptedKey,
                                           PrivateKeyOf(identity[d].userId),
                                           calls[i].senderPublicKey)
       IN  IF channelKey = NoKey
           THEN /\ calls' = SetCall(i, [calls[i] EXCEPT !.pc = "generate"])
                /\ UNCHANGED channelKeys
           ELSE /\ channelKeys' = storeChannelKey(d, calls[i].channelId,
                                                  exportAesKey(channelKey))
                /\ calls' = SetCall(i, [calls[i] EXCEPT !.pc = "done", !.branch = "fetched",
                                           !.persisted = TRUE, !.key = channelKey,
                                           !.isNew = FALSE])
    /\ UNCHANGED <<identity, userKeys, senderKeys, preKeys, nextKey, nextDistributionId>>
    /\ UNCHANGED <<serverVars, bundleFetches, rendered, submitted, roundTrip, wsVars>>

\* where distributeChannelKey stands once todo is known: another member, the
\* request, or, with nothing wrapped, the return of ensureChannelKey
AfterMember(r) ==
    IF r.todo # {} THEN [r EXCEPT !.pc = "member"]
    ELSE IF r.encryptedKeys # {} THEN [r EXCEPT !.pc = "post"]
    ELSE [r EXCEPT !.pc = "done", !.key = r.generated, !.isNew = TRUE]

\* variant that distributes first and stores the key afterwards
GenerateWithoutStore(i) ==
    /\ i \in CallIds /\ calls[i].pc = "generate"
    /\ nextKey' = nextKey + 1
    /\ nextDistributionId' = nextDistributionId + 1
    /\ calls' = SetCall(i, AfterMember([calls[i] EXCEPT
                               !.branch = "generated", !.generated = [raw |-> nextKey],
                               !.todo = calls[i].members,
                               !.distributionId = nextDistributionId]))
    /\ UNCHANGED <<identity, channelKeys, userKeys, senderKeys, preKeys>>
    /\ UNCHANGED <<serverVars, bundleFetches, rendered, submitted, roundTrip, wsVars>>

\* generateChannelKey, exportAesKey, storeChannelKey, and the entry of
\* distributeChannelKey up to its loop (lines 93-100, 114-120)
Generate(i) ==
    /\ i \in CallIds /\ calls[i].pc = "generate"
    /\ nextKey' = nextKey + 1
    /\ nextDistributionId' = nextDistributionId + 1
    /\ channelKeys' = storeChannelKey(calls[i].dev, calls[i].channelId,
                                      exportAesKey([raw |-> nextKey]))
    /\ calls' = SetCall(i, AfterMember([calls[i] EXCEPT
                               !.branch = "generated", !.generated = [raw |-> nextKey],
                               !.persisted = TRUE, !.todo = calls[i].members,
                               !.distributionId = nextDistributionId]))
    /\ UNCHANGED <<identity, userKeys, senderKeys, preKeys>>
    /\ UNCHANGED <<serverVars, bundleFetches, rendered, submitted, roundTrip, wsVars>>

\* what the loop pushes for member m once its public key is known (lines 138-147)
Wrapped(r, m, memberPublicKey, iv) ==
    [forUserId |-> m,
     encryptedKey |-> encryptChannelKeyForRecipient(r.generated, PrivateKeyOf(identity[r.dev].userId),
                                                    memberPublicKey, iv)]

\* variant that asks the server for the bundle whatever the cache holds
GetMemberKeyNoCache(i) ==
    /\ i \in CallIds /\ calls[i].pc = "member"
    /\ calls' = SetCall(i, [calls[i] EXCEPT !.pc = "memberBundle"])
    /\ UNCHANGED <<identity, channelKeys, userKeys, senderKeys, preKeys, nextKey,
                   nextDistributionId>>
    /\ UNCHANGED <<serverVars, bundleFetches, rendered, submitted, roundTrip, wsVars>>

\* getUserKey(member.id) in the loop of distributeChannelKey (lines 125-127)
GetMemberKey(i) ==
    /\ i \in CallIds /\ calls[i].pc = "member"
    /\ LET r == calls[i]
           m == NextMember(r.todo)
           cached == userKeys[r.dev][m]
       IN  IF cached = NoKey
           THEN calls' = SetCall(i, [r EXCEPT !.pc = "memberBundle"])
           ELSE \E iv \in WrapIvs :
                   calls' = SetCall(i, AfterMember([r EXCEPT
                               !.todo = @ \ {m},
                               !.encryptedKeys = @ \cup {Wrapped(r, m, cached, iv)}]))
    /\ UNCHANGED <<identity, channelKeys, userKeys, senderKeys, preKeys, nextKey,
                   nextDistributionId>>
    /\ UNCHANGED <<serverVars, bundleFetches, rendered, submitted, roundTrip, wsVars>>

\* api.auth.getUserKeys(member.id) resolves, storeUserKey, wrap (lines 128-147)
FetchMemberBundle(i) ==
    /\ i \in CallIds /\ calls[i].pc = "memberBundle"
    /\ LET r == calls[i]
           m == NextMember(r.todo)
       IN  /\ preKeys' = PreKeysAfterBundle(m)
           /\ userKeys' = storeUserKey(r.dev, m, BundleIdentityKey(m))
           /\ \E iv \in WrapIvs :
                 calls' = SetCall(i, AfterMember([r EXCEPT
                             !.todo = @ \ {m},
                             !.encryptedKeys = @ \cup {Wrapped(r, m, BundleIdentityKey(m), iv)}]))
    /\ UNCHANGED <<identity, channelKeys, senderKeys, nextKey, nextDistributionId>>
    /\ UNCHANGED <<serverVars, bundleFetches, rendered, submitted, roundTrip, wsVars>>

\* variant without the per-member try/catch: the rejection ends the call
MemberBundleAborts(i) ==
    /\ i \in CallIds /\ calls[i].pc = "memberBundle"
    /\ calls' = SetCall(i, [calls[i] EXCEPT !.pc = "failed"])
    /\ UNCHANGED <<identity, channelKeys, userKeys, senderKeys, preKeys, nextKey,
                   nextDistributionId>>
    /\ UNCHANGED <<serverVars, bundleFetches, rendered, submitted, roundTrip, wsVars>>

\* api.auth.getUserKeys(member.id) rejects: the member is skipped (lines 148-150)
MemberBundleFails(i) ==
    /\ i \in CallIds /\ calls[i].pc = "memberBundle"
    /\ LET r == calls[i]
       IN  calls' = SetCall(i, AfterMember([r EXCEPT !.todo = @ \ {NextMember(r.todo)}]))
    /\ UNCHANGED <<identity, channelKeys, userKeys, senderKeys, preKeys, nextKey,
                   nextDistributionId>>
    /\ UNCHANGED <<serverVars, bundleFetches, rendered, submitted, roundTrip, wsVars>>

\* variant whose DELETE filters on the channel only
PostDeleteChannel(i) ==
    /\ i \in CallIds /\ calls[i].pc = "post"
    /\ senderKeys' = {r \in senderKeys : r.channelId # calls[i].channelId}
    /\ calls' = SetCall(i, [calls[i] EXCEPT !.pc = "insert"])
    /\ UNCHANGED <<identity, channelKeys, userKeys, preKeys, nextKey, nextDistributionId>>
    /\ UNCHANGED <<serverVars, bundleFetches, rendered, submitted, roundTrip, wsVars>>

\* POST /sender-keys, first statement: the distributor's rows of the channel go
PostDelete(i) ==
    /\ i \in CallIds /\ calls[i].pc = "post"
    /\ senderKeys' = {r \in senderKeys :
                         ~(r.channelId = calls[i].channelId /\ r.userId = calls[i].dev)}
    /\ calls' = SetCall(i, [calls[i] EXCEPT !.pc = "insert"])
    /\ UNCHANGED <<identity, channelKeys, userKeys, preKeys, nextKey, nextDistributionId>>
    /\ UNCHANGED <<serverVars, bundleFetches, rendered, submitted, roundTrip, wsVars>>

\* POST /sender-keys, second statement, and the return of ensureChannelKey
PostInsert(i) ==
    /\ i \in CallIds /\ calls[i].pc = "insert"
    /\ senderKeys' = senderKeys \cup
          {[channelId |-> calls[i].channelId, userId |-> calls[i].dev,
            distributionId |-> calls[i].distributionId,
            encryptedKey |-> ek.encryptedKey, forUserId |-> ek.forUserId] :
             ek \in calls[i].encryptedKeys}
    /\ calls' = SetCall(i, [calls[i] EXCEPT !.pc = "done", !.key = calls[i].generated,
                                            !.isNew = TRUE])
    /\ UNCHANGED <<identity, channelKeys, userKeys, preKeys, nextKey, nextDistributionId>>
    /\ UNCHANGED <<serverVars, bundleFetches, rendered, submitted, roundTrip, wsVars>>

\* api.channels.distributeSenderKey rejects, before or between the two
\* statements of the route: ensureChannelKey rejects with it
PostFails(i) ==
    /\ i \in CallIds /\ calls[i].pc \in {"post", "insert"}
    /\ calls' = SetCall(i, [calls[i] EXCEPT !.pc = "failed"])
    /\ UNCHANGED <<identity, channelKeys, userKeys, senderKeys, preKeys, nextKey,
                   nextDistributionId>>
    /\ UNCHANGED <<serverVars, bundleFetches, rendered, submitted, roundTrip, wsVars>>

NextKeys ==
    \/ \E d \in Callers, c \in KeyChans, members \in Rosters :
          Len(calls) < MaxCalls /\ EnsureChannelKey(d, c, members)
    \/ \E i \in CallIds : GetSenderKeysOk(i)
    \/ \E i \in CallIds : FetchBranchFails(i)
    \/ \E i \in CallIds : GetSenderPublicKey(i)
    \/ \E i \in CallIds : FetchSenderBundle(i)
    \/ \E i \in CallIds : UnwrapAndStore(i)
    \/ \E i \in CallIds : Generate(i)
    \/ \E i \in CallIds : GetMemberKey(i)
    \/ \E i \in CallIds : FetchMemberBundle(i)
    \/ \E i \in CallIds : MemberBundleFails(i)
    \/ \E i \in CallIds : PostDelete(i)
    \/ \E i \in CallIds : PostInsert(i)
    \/ \E i \in CallIds : PostFails(i)

SpecKeys == Init /\ [][NextKeys]_vars

\* decryptChannelMessage (lines 180-194): ensureChannelKey, then decryptMessage,
\* both inside one try whose catch returns the placeholder. r is the call of
\* ensureChannelKey once it has returned or thrown.
Plaintexts == {[plain |-> "hello"]}
Placeholder == [plain |-> "[Unable to decrypt message]"]

\* The blobs a client is handed: sealed under a channel key some device may
\* generate, or failing authentication under every key (tampered, truncated
\* or not a blob at all).
Blobs ==
    {encryptMessage(p, [raw |-> n], "iv") : p \in Plaintexts, n \in 1..MaxCalls}
        \cup {[iv |-> "iv", sealedWith |-> NoKey, text |-> [plain |-> "garbled"]]}

\* variant without the try/catch: what decryptMessage threw comes out
decryptChannelMessageNoCatch(r, blob) ==
    IF r.pc = "failed" THEN NoKey ELSE decryptMessage(blob, r.key)

decryptChannelMessage(r, blob) ==
    IF r.pc = "failed"
    THEN Placeholder
    ELSE LET text == decryptMessage(blob, r.key)
         IN  IF text = NoKey THEN Placeholder ELSE text

\* the ensureChannelKey call i made by decryptChannelMessage for blob has
\* ended, and decryptChannelMessage returns
DecryptReturn(i, blob) ==
    /\ i \in CallIds /\ Finished(i)
    /\ \A x \in rendered : x.call # i
    /\ rendered' = rendered \cup {[call |-> i, blob |-> blob,
                                   result |-> decryptChannelMessage(calls[i], blob)]}
    /\ UNCHANGED <<serverVars, keyVars, bundleFetches, submitted, roundTrip, wsVars>>

NextCodec ==
    \/ NextKeys
    \/ \E i \in CallIds, blob \in Blobs : DecryptReturn(i, blob)

SpecCodec == Init /\ [][NextCodec]_vars

\* MessageInput.handleSubmit with encryption (MemberList.tsx lines 66-97):
\* encryptChannelMessage, that is ensureChannelKey then encryptMessage, in a
\* try whose catch sends the trimmed input itself. i is the call of
\* ensureChannelKey once it has returned or thrown.
NoCall == 0

handleSubmit(i, p) ==
    /\ i \in CallIds /\ Finished(i)
    /\ \A x \in submitted : x.call # i
    /\ \E iv \in WrapIvs :
          submitted' = submitted \cup
             {[call |-> i, plaintext |-> p,
               ciphertext |-> IF calls[i].pc = "done"
                              THEN encryptMessage(p, calls[i].key, iv)
                              ELSE p]}
    /\ UNCHANGED <<serverVars, keyVars, bundleFetches, rendered, roundTrip, wsVars>>

\* MessageInput.handleSubmit without encryption (MessageInput.tsx lines 15-30)
handleSubmitUnencrypted(p) ==
    /\ \A x \in submitted : x.call # NoCall
    /\ submitted' = submitted \cup {[call |-> NoCall, plaintext |-> p, ciphertext |-> p]}
    /\ UNCHANGED <<serverVars, keyVars, bundleFetches, rendered, roundTrip, wsVars>>

NextSubmit ==
    \/ NextKeys
    \/ \E i \in CallIds, p \in Plaintexts : handleSubmit(i, p)
    \/ \E p \in Plaintexts : handleSubmitUnencrypted(p)

SpecSubmit == Init /\ [][NextSubmit]_vars

\* ------------------------------------------- crypto.ts at the byte level
\* encryptMessage and decryptMessage with their conversions: TextEncoder,
\* the 12-byte iv in front of the AES-GCM output, base64, and back. A string
\* is its sequence of UTF-16 code units, an ArrayBuffer a sequence of bytes,
\* a base64 text a sequence of 6-bit digits with Base64Pad for "=".
\* (The record form encryptMessage above stands for these where the text is
\* a base64 key or another ASCII text.)

\* Code units a message is made of, at most MaxLen per message: "a", "é",
\* the euro sign, U+FEFF, and the two halves of U+1F600.
MaxLen == 3
CodeUnits == {97, 233, 8364, 65279, 55357, 56832}
AesKeys == {[raw |-> 1], [raw |-> 2]}
IvLength == 12
TagLength == 16
Ivs == {[i \in 1..IvLength |-> 0], [i \in 1..IvLength |-> 7 * i]}
Base64Pad == 64

Strings == UNION {[1..n -> CodeUnits] : n \in 0..MaxLen}

IsHighSurrogate(u) == u \in 55296..56319
IsLowSurrogate(u) == u \in 56320..57343

RECURSIVE ToScalarValues(_)
\* the conversion of a string to scalar values TextEncoder.encode starts
\* with: a surrogate pair is one code point, a lone surrogate is U+FFFD
ToScalarValues(str) ==
    IF str = << >> THEN << >>
    ELSE IF Len(str) >= 2 /\ IsHighSurrogate(str[1]) /\ IsLowSurrogate(str[2])
    THEN <<65536 + (str[1] - 55296) * 1024 + (str[2] - 56320)>>
             \o ToScalarValues(SubSeq(str, 3, Len(str)))
    ELSE IF IsHighSurrogate(str[1]) \/ IsLowSurrogate(str[1])
    THEN <<65533>> \o ToScalarValues(Tail(str))
    ELSE <<str[1]>> \o ToScalarValues(Tail(str))

Utf8Bytes(cp) ==
    IF cp < 128 THEN <<cp>>
    ELSE IF cp < 2048 THEN <<192 + (cp \div 64), 128 + (cp % 64)>>
    ELSE IF cp < 65536
    THEN <<224 + (cp \div 4096), 128 + ((cp \div 64) % 64), 128 + (cp % 64)>>
    ELSE <<240 + (cp \div 262144), 128 + ((cp \div 4096) % 64),
           128 + ((cp \div 64) % 64), 128 + (cp % 64)>>

RECURSIVE Utf8Encode(_)
Utf8Encode(cps) ==
    IF cps = << >> THEN << >> ELSE Utf8Bytes(cps[1]) \o Utf8Encode(Tail(cps))

\* new TextEncoder().encode(message)
TextEncode(message) == Utf8Encode(ToScalarValues(message))

IsContinuation(b) == b \in 128..191

RECURSIVE Utf8Decode(_)
\* the UTF-8 decoder in replacement mode: an ill-formed byte is U+FFFD
Utf8Decode(bytes) ==
    IF bytes = << >> THEN << >>
    ELSE LET b == bytes[1]
             n == Len(bytes)
         IN  IF b < 128 THEN <<b>> \o Utf8Decode(Tail(bytes))
             ELSE IF b \in 194..223 /\ n >= 2 /\ IsContinuation(bytes[2])
             THEN <<(b - 192) * 64 + (bytes[2] - 128)>> \o Utf8Decode(SubSeq(bytes, 3, n))
             ELSE IF b \in 224..239 /\ n >= 3 /\ IsContinuation(bytes[2])
                     /\ IsContinuation(bytes[3])
             THEN <<(b - 224) * 4096 + (bytes[2] - 128) * 64 + (bytes[3] - 128)>>
                      \o Utf8Decode(SubSeq(bytes, 4, n))
             ELSE IF b \in 240..244 /\ n >= 4 /\ IsContinuation(bytes[2])
                     /\ IsContinuation(bytes[3]) /\ IsContinuation(bytes[4])
             THEN <<(b - 240) * 262144 + (bytes[2] - 128) * 4096
                        + (bytes[3] - 128) * 64 + (bytes[4] - 128)>>
                      \o Utf8Decode(SubSeq(bytes, 5, n))
             ELSE <<65533>> \o Utf8Decode(Tail(bytes))

RECURSIVE ToCodeUnits(_)
ToCodeUnits(cps) ==
    IF cps = << >> THEN << >>
    ELSE IF cps[1] >= 65536
    THEN <<55296 + (cps[1] - 65536) \div 1024, 56320 + ((cps[1] - 65536) % 1024)>>
             \o ToCodeUnits(Tail(cps))
    ELSE <<cps[1]>> \o ToCodeUnits(Tail(cps))

\* new TextDecoder().decode(decrypted): ignoreBOM is false, so a leading
\* U+FEFF of the decoded text is dropped
TextDecode(bytes) ==
    LET cps == Utf8Decode(bytes)
    IN  ToCodeUnits(IF cps # << >> /\ cps[1] = 65279 THEN Tail(cps) ELSE cps)

RECURSIVE btoa(_)
\* btoa over the binary string String.fromCharCode built, byte for char
btoa(bytes) ==
    IF bytes = << >> THEN << >>
    ELSE IF Len(bytes) = 1
    THEN <<(bytes[1] \div 4), (bytes[1] % 4) * 16, Base64Pad, Base64Pad>>
    ELSE IF Len(bytes) = 2
    THEN <<(bytes[1] \div 4), (bytes[1] % 4) * 16 + (bytes[2] \div 16),
           (bytes[2] % 16) * 4, Base64Pad>>
    ELSE <<(bytes[1] \div 4), (bytes[1] % 4) * 16 + (bytes[2] \div 16),
           (bytes[2] % 16) * 4 + (bytes[3] \div 64), (bytes[3] % 64)>>
             \o btoa(SubSeq(bytes, 4, Len(bytes)))

arrayBufferToBase64(buffer) == btoa(buffer)

RECURSIVE atob(_)
\* atob, read back into bytes by charCodeAt
atob(digits) ==
    IF Len(digits) < 4 THEN << >>
    ELSE LET d == SubSeq(digits, 1, 4)
             rest == atob(SubSeq(digits, 5, Len(digits)))
         IN  IF d[3] = Base64Pad
             THEN <<d[1] * 4 + (d[2] \div 16)>>
             ELSE IF d[4] = Base64Pad
             THEN <<d[1] * 4 + (d[2] \div 16), (d[2] % 16) * 16 + (d[3] \div 4)>>
             ELSE <<d[1] * 4 + (d[2] \div 16), (d[2] % 16) * 16 + (d[3] \div 4),
                    (d[3] % 4) * 64 + d[4]>> \o rest

base64ToArrayBuffer(base64) == atob(base64)

RECURSIVE SumBytes(_)
SumBytes(bytes) == IF bytes = << >> THEN 0 ELSE bytes[1] + SumBytes(Tail(bytes))

\* AES-GCM as a keyed, invertible byte map followed by a tag of TagLength
\* bytes over key, iv and ciphertext; decrypt rejects when the tag differs.
PadByte(key, iv, i) == (key.raw * 31 + iv[((i - 1) % IvLength) + 1] + i) % 256
GcmTag(key, iv, body) ==
    [j \in 1..TagLength |-> ((SumBytes(body) + key.raw * 17 + iv[1] + j) % 256)]

\* crypto.subtle.encrypt({ name: 'AES-GCM', iv }, key, data)
subtleEncrypt(key, iv, data) ==
    LET body == [i \in 1..Len(data) |-> ((data[i] + PadByte(key, iv, i)) % 256)]
    IN  body \o GcmTag(key, iv, body)

DecryptFailed == [ok |-> FALSE, bytes |-> << >>]

\* crypto.subtle.decrypt({ name: 'AES-GCM', iv }, key, ciphertext)
subtleDecrypt(key, iv, ciphertext) ==
    IF Len(ciphertext) < TagLength \/ Len(iv) # IvLength THEN DecryptFailed
    ELSE LET n == Len(ciphertext) - TagLength
             body == SubSeq(ciphertext, 1, n)
         IN  IF SubSeq(ciphertext, n + 1, Len(ciphertext)) # GcmTag(key, iv, body)
             THEN DecryptFailed
             ELSE [ok |-> TRUE,
                   bytes |-> [i \in 1..n |-> ((body[i] + 256 - PadByte(key, iv, i)) % 256)]]

\* encryptMessage (lines 148-171) with the iv getRandomValues drew
encryptMessageBytes(message, key, iv) ==
    arrayBufferToBase64(iv \o subtleEncrypt(key, iv, TextEncode(message)))

\* decryptMessage (lines 177-196); ok is FALSE when crypto.subtle.decrypt rejects
decryptMessageBytes(ciphertextBase64, key) ==
    LET combined == base64ToArrayBuffer(ciphertextBase64)
        decrypted == subtleDecrypt(key, SubSeq(combined, 1, IvLength),
                                   SubSeq(combined, IvLength + 1, Len(combined)))
    IN  IF decrypted.ok THEN [ok |-> TRUE, text |-> TextDecode(decrypted.bytes)]
        ELSE [ok |-> FALSE, text |-> << >>]

EncryptMessage(message, key, iv) ==
    /\ roundTrip.pc = "idle"
    /\ roundTrip' = [pc |-> "encrypted", message |-> message, key |-> key,
                     ciphertext |-> encryptMessageBytes(message, key, iv)]
    /\ UNCHANGED <<serverVars, keyVars, bundleFetches, rendered, submitted, wsVars>>

DecryptMessage(key) ==
    /\ roundTrip.pc = "encrypted"
    /\ roundTrip' = [pc |-> "decrypted", message |-> roundTrip.message,
                     key |-> roundTrip.key, ciphertext |-> roundTrip.ciphertext,
                     with |-> key,
                     result |-> decryptMessageBytes(roundTrip.ciphertext, key)]
    /\ UNCHANGED <<serverVars, keyVars, bundleFetches, rendered, submitted, wsVars>>

NextCrypto ==
    \/ \E message \in Strings, key \in AesKeys, iv \in Ivs : EncryptMessage(message, key, iv)
    \/ \E key \in AesKeys : DecryptMessage(key)

SpecCrypto == InitRelay /\ [][NextCrypto]_vars

\* ------------------------------------------------- lib/websocket.ts
\* One WebSocketClient. Every WebSocket it created keeps its own handlers,
\* which act on the client's fields as they are when the event arrives;
\* relay[k] is what the relay's auth, channel:join and channel:leave cases
\* make of the frames sent on socket k, in the order they were sent.
AuthFrame(u) == [type |-> "auth", userId |-> u]
JoinFrame(c) == [type |-> "channel:join", channelId |-> c]
LeaveFrame(c) == [type |-> "channel:leave", channelId |-> c]

RECURSIVE SetToSeq(_)
\* for (const channelId of this.joinedChannels)
SetToSeq(S) ==
    IF S = {} THEN << >>
    ELSE LET x == CHOOSE y \in S : TRUE IN <<x>> \o SetToSeq(S \ {x})

\* handleMessage of the relay on one connection: cases auth, channel:join
\* and channel:leave (index.ts lines 39-76)
RelayApply(st, f) ==
    IF f.type = "auth"
    THEN [st EXCEPT !.userId = f.userId, !.channelIds = {}]
    ELSE IF st.userId = NoUserId THEN st
    ELSE IF f.type = "channel:join"
    THEN [st EXCEPT !.channelIds = @ \cup {f.channelId},
                    !.connections = @ \cup {f.channelId}]
    ELSE [st EXCEPT !.channelIds = @ \ {f.channelId},
                    !.connections = @ \ {f.channelId}]

RECURSIVE RelayApplyAll(_, _)
RelayApplyAll(st, frames) ==
    IF frames = << >> THEN st
    ELSE RelayApplyAll(RelayApply(st, Head(frames)), Tail(frames))

\* this.send(message) for each message of frames, with the sockets as socks:
\* a frame goes out only if this.ws is OPEN
SendAll(socks, frames) ==
    IF ws # NoWs /\ socks[ws].readyState = "OPEN" /\ frames # << >>
    THEN /\ clientOut' = [sock |-> ws, frames |-> frames]
         /\ relay' = [relay EXCEPT ![ws] = RelayApplyAll(@, frames)]
    ELSE /\ clientOut' = NothingSent
         /\ UNCHANGED relay

\* connect(userId) up to the assignment of the handlers
connect(u) ==
    /\ Len(sockets) < MaxSockets
    /\ wsUserId' = u
    /\ sockets' = Append(sockets, [readyState |-> "CONNECTING", userId |-> u])
    /\ ws' = Len(sockets) + 1
    /\ relay' = Append(relay, NoRelayEntry)
    /\ clientOut' = NothingSent
    /\ UNCHANGED <<joinedChannels, emitted>>
    /\ UNCHANGED <<serverVars, keyVars, bundleFetches, rendered, submitted, roundTrip>>

\* the callbacks of attemptReconnect that have run
Fired == {i \in DOMAIN timeouts : timeouts[i].fired}

\* wsClient.connect(user.id), called by the page
Connect(u) ==
    /\ Len(sockets) - Cardinality(Fired) < MaxConnects
    /\ connect(u)
    /\ UNCHANGED <<reconnectAttempts, timeouts>>

\* variant of onopen that sends the joins before the auth frame
OpenFramesJoinFirst(u) == [i \in 1..Cardinality(joinedChannels) |->
                              JoinFrame(SetToSeq(joinedChannels)[i])] \o <<AuthFrame(u)>>

\* the frames onopen passes to this.send, in order
OpenFrames(u) ==
    <<AuthFrame(u)>> \o [i \in 1..Cardinality(joinedChannels) |->
                            JoinFrame(SetToSeq(joinedChannels)[i])]

\* ws.onopen of socket k (lines 24-35)
OnOpen(k) ==
    /\ k \in DOMAIN sockets /\ sockets[k].readyState = "CONNECTING"
    /\ sockets' = [sockets EXCEPT ![k].readyState = "OPEN"]
    /\ reconnectAttempts' = 0
    /\ SendAll(sockets', OpenFrames(sockets[k].userId))
    /\ UNCHANGED <<ws, wsUserId, joinedChannels, timeouts, emitted>>
    /\ UNCHANGED <<serverVars, keyVars, bundleFetches, rendered, submitted, roundTrip>>

\* ws.onmessage of socket k with a frame of type t (lines 37-44)
OnMessage(k, t) ==
    /\ k \in DOMAIN sockets /\ sockets[k].readyState = "OPEN"
    /\ emitted' = emitted \cup {t}
    /\ clientOut' = NothingSent
    /\ UNCHANGED <<sockets, ws, reconnectAttempts, wsUserId, joinedChannels, timeouts, relay>>
    /\ UNCHANGED <<serverVars, keyVars, bundleFetches, rendered, submitted, roundTrip>>

Min(a, b) == IF a < b THEN a ELSE b

\* variant without the cap on the delay
ReconnectDelayUncapped(attempts) == 1000 * 2^attempts

\* Math.min(1000 * Math.pow(2, this.reconnectAttempts), 30000)
ReconnectDelay(attempts) == Min(1000 * 2^attempts, 30000)

\* variant without the early return at the cap
attemptReconnectUncapped ==
    /\ reconnectAttempts' = reconnectAttempts + 1
    /\ timeouts' = Append(timeouts, [attempt |-> reconnectAttempts + 1,
                                     delay |-> ReconnectDelay(reconnectAttempts + 1),
                                     fired |-> FALSE])

\* attemptReconnect (lines 56-72) up to setTimeout
attemptReconnect ==
    IF reconnectAttempts >= MaxReconnectAttempts
    THEN UNCHANGED <<reconnectAttempts, timeouts>>
    ELSE /\ reconnectAttempts' = reconnectAttempts + 1
         /\ timeouts' = Append(timeouts, [attempt |-> reconnectAttempts + 1,
                                          delay |-> ReconnectDelay(reconnectAttempts + 1),
                                          fired |-> FALSE])

\* ws.onclose of socket k (lines 46-49): the connection failed, was lost or
\* finished closing; the relay drops its entries for it (handleDisconnect)
OnClose(k) ==
    /\ k \in DOMAIN sockets /\ sockets[k].readyState # "CLOSED"
    /\ sockets' = [sockets EXCEPT ![k].readyState = "CLOSED"]
    /\ relay' = [relay EXCEPT ![k] = NoRelayEntry]
    /\ attemptReconnect
    /\ clientOut' = NothingSent
    /\ UNCHANGED <<ws, wsUserId, joinedChannels, emitted>>
    /\ UNCHANGED <<serverVars, keyVars, bundleFetches, rendered, submitted, roundTrip>>

\* the callback of the i-th setTimeout runs (lines 67-71)
TimerFires(i) ==
    /\ i \in DOMAIN timeouts /\ ~timeouts[i].fired
    /\ timeouts' = [timeouts EXCEPT ![i].fired = TRUE]
    /\ IF wsUserId # NoUserId
       THEN connect(wsUserId)
       ELSE /\ UNCHANGED <<sockets, ws, wsUserId, joinedChannels, relay, emitted>>
            /\ clientOut' = NothingSent
            /\ UNCHANGED <<serverVars, keyVars, bundleFetches, rendered, submitted, roundTrip>>
    /\ UNCHANGED reconnectAttempts

\* disconnect() (lines 74-80)
Disconnect ==
    /\ IF ws # NoWs
       THEN sockets' = [sockets EXCEPT
                           ![ws].readyState = IF @ = "CLOSED" THEN "CLOSED" ELSE "CLOSING"]
       ELSE UNCHANGED sockets
    /\ ws' = NoWs
    /\ joinedChannels' = {}
    /\ clientOut' = NothingSent
    /\ UNCHANGED <<reconnectAttempts, wsUserId, timeouts, relay, emitted>>
    /\ UNCHANGED <<serverVars, keyVars, bundleFetches, rendered, submitted, roundTrip>>

\* joinChannel(channelId) (lines 88-91)
JoinChannel(c) ==
    /\ joinedChannels' = joinedChannels \cup {c}
    /\ SendAll(sockets, <<JoinFrame(c)>>)
    /\ UNCHANGED <<sockets, ws, reconnectAttempts, wsUserId, timeouts, emitted>>
    /\ UNCHANGED <<serverVars, keyVars, bundleFetches, rendered, submitted, roundTrip>>

\* leaveChannel(channelId) (lines 93-96)
LeaveChannel(c) ==
    /\ joinedChannels' = joinedChannels \ {c}
    /\ SendAll(sockets, <<LeaveFrame(c)>>)
    /\ UNCHANGED <<sockets, ws, reconnectAttempts, wsUserId, timeouts, emitted>>
    /\ UNCHANGED <<serverVars, keyVars, bundleFetches, rendered, submitted, roundTrip>>

NextClient ==
    \/ \E u \in ClientUserIds : Connect(u)
    \/ \E k \in DOMAIN sockets : OnOpen(k)
    \/ \E k \in DOMAIN sockets, t \in ServerTypes : OnMessage(k, t)
    \/ \E k \in DOMAIN sockets : OnClose(k)
    \/ \E i \in DOMAIN timeouts : TimerFires(i)
    \/ Disconnect
    \/ \E c \in Chans : JoinChannel(c)
    \/ \E c \in Chans : LeaveChannel(c)

SpecClient == InitRelay /\ [][NextClient]_vars

\* The key broker observed on a server that already holds rows: member c has,
\* in an earlier session, generated keys for k1 and for another channel and
\* distributed each to a, b and itself (fetching their bundles on the way).
OtherChan == "k2"

LegacyRows ==
    {[channelId |-> ch, userId |-> "c", distributionId |-> 0,
      encryptedKey |-> encryptChannelKeyForRecipient([raw |-> 0], PrivateKeyOf("c"),
                                                     PublicKeyOf(u), "iv"),
      forUserId |-> u] : ch \in KeyChans \cup {OtherChan}, u \in KeyUsers}

InitFrame ==
    /\ InitServer
    /\ identity = [d \in KeyUsers |-> [userId |-> d]]
    /\ channelKeys = [d \in KeyUsers |-> [c \in KeyChans |->
                         IF d = "c" THEN exportAesKey([raw |-> 0]) ELSE NoKey]]
    /\ userKeys = [d \in KeyUsers |-> [u \in KeyUsers |->
                         IF d = "c" THEN BundleIdentityKey(u) ELSE NoKey]]
    /\ senderKeys = LegacyRows
    /\ preKeys = [u \in KeyUsers |-> {}]
    /\ nextKey = 1
    /\ nextDistributionId = 1
    /\ calls = << >>
    /\ bundleFetches = << >>
    /\ rendered = {}
    /\ submitted = {}
    /\ roundTrip = [pc |-> "idle"]
    /\ InitWs

SpecFrame == InitFrame /\ [][NextKeys]_vars

\* Every member of a three-member channel calls ensureChannelKey once, with
\* the full roster: the setting of the cross-device fork. The devices have
\* met before: each holds the others' public keys in its userKeys table, so
\* no call asks for a key bundle.
InitFork ==
    /\ InitServer
    /\ identity = [d \in KeyUsers |-> [userId |-> d]]
    /\ channelKeys = [d \in KeyUsers |-> [c \in KeyChans |-> NoKey]]
    /\ userKeys = [d \in KeyUsers |-> [u \in KeyUsers |-> BundleIdentityKey(u)]]
    /\ senderKeys = {}
    /\ preKeys = [u \in KeyUsers |-> {}]
    /\ nextKey = 1
    /\ nextDistributionId = 1
    /\ calls = << >>
    /\ bundleFetches = << >>
    /\ rendered = {}
    /\ submitted = {}
    /\ roundTrip = [pc |-> "idle"]
    /\ InitWs

HasCalled(d) == \E i \in CallIds : calls[i].dev = d

NextFork ==
    \/ \E d \in KeyUsers, c \in KeyChans : ~HasCalled(d) /\ EnsureChannelKey(d, c, KeyUsers)
    \/ \E i \in CallIds : GetSenderKeysOk(i)
    \/ \E i \in CallIds : FetchBranchFails(i)
    \/ \E i \in CallIds : GetSenderPublicKey(i)
    \/ \E i \in CallIds : UnwrapAndStore(i)
    \/ \E i \in CallIds : Generate(i)
    \/ \E i \in CallIds : GetMemberKey(i)
    \/ \E i \in CallIds : PostDelete(i)
    \/ \E i \in CallIds : PostInsert(i)
    \/ \E i \in CallIds : PostFails(i)

SpecFork == InitFork /\ [][NextFork]_vars

\* ======================================================== relay: claims
Count(seq, x) == Cardinality({i \in DOMAIN seq : seq[i] = x})

OpenSubscribers(c) == {t \in ChannelSockets(c) : readyState[t] = "OPEN"}

\* message:new envelopes for row id among the envelopes seq
NewsFor(seq, id) ==
    Cardinality({i \in DOMAIN seq : seq[i].type = "message:new" /\ seq[i].id = id})

\* C1: a message:send whose row was stored ends with exactly one message:new
\* for that row handed to every open connection subscribed to its channel, and
\* with none handed to any other connection.
C1_StoredMessageIsFannedOut ==
    [][\A h \in pending :
          (h.kind = "message:send" /\ h.pc = "lookup" /\ h \notin pending')
          => \A t \in Socks :
                /\ NewsFor(out'[t], h.id) = IF t \in OpenSubscribers(h.channelId) THEN 1 ELSE 0
                /\ Count(delivered'[t], h.id) =
                      IF t \in OpenSubscribers(h.channelId) THEN 1 ELSE 0]_vars

\* C2: every message:new ever sent carries a row the messages table holds, and
\* a handler whose insert rejects sends one error envelope, to the sending
\* connection only, and no message:new.
IsStoredRow(env) ==
    /\ env.id \in 1..Len(messages)
    /\ messages[env.id].channelId = env.channelId
    /\ messages[env.id].senderId = env.senderId
    /\ messages[env.id].ciphertext = env.ciphertext

C2_PersistBeforeFanOut ==
    /\ [](\A t \in Socks :
            /\ \A i \in DOMAIN delivered[t] : delivered[t][i] \in 1..Len(messages)
            /\ \A i \in DOMAIN out[t] : out[t][i].type = "message:new" => IsStoredRow(out[t][i]))
    /\ [][\A h \in pending :
            (h.kind = "message:send" /\ h.pc = "insert" /\ h \notin pending'
                /\ messages' = messages)
            => /\ out' = SendTo(h.sock, ErrorEnv("Invalid message format"))
               /\ delivered' = delivered]_vars

\* C2 witness: an insert was rejected while the sender sat in every channel
C2_Witness ==
    \E s \in Socks :
        /\ out = SendTo(s, ErrorEnv("Invalid message format"))
        /\ messages = << >>
        /\ \A c \in Chans : s \in OpenSubscribers(c)

\* C3: a connection whose close event was handled is in no subscriber set and
\* not in the connection registry.
C3_ClosedConnectionIsGone ==
    \A s \in Socks :
        readyState[s] = "CLOSED"
        => /\ s \notin DOMAIN socketUsers
           /\ \A c \in Chans : s \notin ChannelSockets(c)

\* C4: s is in the subscriber set of c exactly when c is in the channelIds
\* the connection registry records for s.
C4_RegistriesAgree ==
    \A s \in Socks, c \in Chans :
        s \in ChannelSockets(c) <=> (s \in DOMAIN socketUsers /\ c \in socketUsers[s].channelIds)

\* C5: a non-auth frame on a connection that has not authenticated is answered
\* with one error envelope to that connection, changes no server state and
\* leaves the connection open.
NonAuthFrame(s) ==
    \E c \in Chans :
        \/ ChannelJoin(s, c)
        \/ ChannelLeave(s, c)
        \/ \E ct \in Ciphertexts : MessageSend(s, c, ct)
        \/ TypingStart(s, c)
        \/ TypingStop(s, c)
        \/ \E m \in MessageIds, e \in Emojis : ReactionAdd(s, c, m, e)
        \/ \E rid \in ReactionIdsKnown, m \in MessageIds, e \in Emojis :
              ReactionRemove(s, c, rid, m, e)

C5_AuthenticationRequired ==
    [][\A s \in Socks :
          (s \notin DOMAIN socketUsers /\ NonAuthFrame(s))
          => /\ out' = SendTo(s, ErrorEnv("Not authenticated"))
             /\ UNCHANGED <<readyState, socketUsers, channelConnections, messages,
                            reactions, pending, delivered>>]_vars

\* C6: a typing:start or typing:stop from an authenticated connection hands one
\* typing:update to every other open connection subscribed to the channel,
\* none to the originating connection, and writes no table.
C6_TypingFanOut ==
    [][\A s \in Socks, c \in Chans, b \in BOOLEAN :
          (s \in DOMAIN socketUsers /\ Typing(s, c, b))
          => /\ \A t \in Socks :
                   out'[t] = IF t # s /\ t \in OpenSubscribers(c)
                             THEN <<TypingUpdate(c, socketUsers[s].userId, b)>>
                             ELSE << >>
             /\ UNCHANGED <<messages, reactions, nextReactionId, pending>>]_vars

\* C6 witness: a typing:update reached a subscriber while the only other
\* connection, the authenticated originator, was handed nothing
C6_Witness ==
    \E s \in Socks, t \in Socks, c \in Chans, b \in BOOLEAN :
        /\ s # t
        /\ s \in DOMAIN socketUsers
        /\ out[t] = <<TypingUpdate(c, socketUsers[s].userId, b)>>
        /\ out[s] = << >>
        /\ t \in OpenSubscribers(c)

\* =================================================== key broker: claims
\* Call i generated a key, wrapped it for user b and had its round accepted.
CompletedRound(i, b) ==
    /\ calls[i].pc = "done" /\ calls[i].branch = "generated"
    /\ \E ek \in calls[i].encryptedKeys : ek.forUserId = b

\* Call j started after call i had returned, on another device, for the same
\* channel, with identity keys and without a local channel key.
StartedAfter(i, j) ==
    /\ i \in calls[j].after
    /\ calls[i].dev # calls[j].dev
    /\ calls[i].channelId = calls[j].channelId
    /\ identity[calls[j].dev] # NoKey
    /\ calls[j].branch # "cached"

\* C7 as stated: whenever A's ensureChannelKey has generated K, distributed it
\* wrapped for B and returned before B, who has no local key, starts its own
\* call, B's call ends with K unwrapped from A's record and K in B's store.
C7_ConvergenceWithoutRace ==
    \A i \in CallIds, j \in CallIds :
        (StartedAfter(i, j) /\ CompletedRound(i, calls[j].dev) /\ Finished(j))
        => /\ calls[j].pc = "done" /\ calls[j].branch = "fetched"
           /\ calls[j].key = calls[i].generated
           /\ channelKeys[calls[j].dev][calls[j].channelId] = exportAesKey(calls[i].generated)

\* C7 amended: if B's call started after A's returned, its request for the
\* distribution records succeeded and handed it A's record of that round, and
\* A's public key was resolved, then the unwrap step derives ECDH(B.priv, A.pub),
\* opens the record with it, stores K in B's store and returns K, isNew = false.
C7_FetchedRecordConverges ==
    [][\A j \in CallIds : \A i \in calls[j].after :
          ( /\ UnwrapAndStore(j)
            /\ StartedAfter(i, j) /\ CompletedRound(i, calls[j].dev)
            /\ calls[j].rec.userId = calls[i].dev
            /\ calls[j].rec.distributionId = calls[i].distributionId )
          => /\ calls[j].senderPublicKey = PublicKeyOf(calls[i].dev)
             /\ DecryptOk(calls[j].rec.encryptedKey,
                          deriveSharedKey(PrivateKeyOf(calls[j].dev), PublicKeyOf(calls[i].dev)))
             /\ channelKeys'[calls[j].dev][calls[j].channelId] = exportAesKey(calls[i].generated)
             /\ calls'[j].pc = "done"
             /\ calls'[j].key = calls[i].generated
             /\ calls'[j].isNew = FALSE]_vars

\* B has adopted, from A's record, the key A generated in an earlier call.
C7_Witness ==
    \E i \in CallIds, j \in CallIds :
        /\ StartedAfter(i, j) /\ CompletedRound(i, calls[j].dev)
        /\ calls[j].pc = "done" /\ calls[j].branch = "fetched"
        /\ calls[j].rec.distributionId = calls[i].distributionId
        /\ channelKeys[calls[j].dev][calls[j].channelId] = exportAesKey(calls[i].generated)

\* C8: once a device's store holds a key for a channel, no step of any call on
\* that device replaces it with a different key.
C8_HasKeyIsTerminal ==
    [][\A d \in KeyUsers, c \in KeyChans :
          channelKeys[d][c] # NoKey => channelKeys'[d][c] = channelKeys[d][c]]_vars

\* C9 as stated: a call that found no local key and no record addressed to
\* itself ends by returning the key it generated, stored and distributed, with
\* isNew = true.
C9_GenerateBranchReturnsNew ==
    \A i \in CallIds :
        (calls[i].found = "empty" /\ Finished(i))
        => /\ calls[i].pc = "done" /\ calls[i].isNew
           /\ calls[i].persisted
           /\ calls[i].key = calls[i].generated

\* the rows call record r submits
RoundRows(r) ==
    {[channelId |-> r.channelId, userId |-> r.dev, distributionId |-> r.distributionId,
      encryptedKey |-> ek.encryptedKey, forUserId |-> ek.forUserId] : ek \in r.encryptedKeys}

\* C9 amended: a call that finds no record goes on to generate; the step that
\* generates the key (a key no call held before) writes it to the local store
\* while no row of its round is on the server; the round is submitted only
\* afterwards, and only if something was wrapped; the call returns the
\* generated key with isNew = true when the round is accepted or nothing was
\* wrapped, and rejects, the key staying stored, when the request is rejected.
C9_GenerateBranchOrdering ==
    [][\A i \in CallIds :
          /\ (GetSenderKeysOk(i) /\ SenderKeysFor(calls[i].channelId, calls[i].dev) = {})
                => calls'[i].pc = "generate"
          /\ Generate(i)
                => /\ \A k \in CallIds : calls[k].generated # calls'[i].generated
                   /\ channelKeys'[calls[i].dev][calls[i].channelId]
                         = exportAesKey(calls'[i].generated)
                   /\ \A row \in senderKeys' : row.distributionId # calls'[i].distributionId
          /\ (PostDelete(i) \/ PostInsert(i))
                => /\ calls[i].persisted
                   /\ calls[i].encryptedKeys # {}
          /\ PostInsert(i) => RoundRows(calls[i]) \subseteq senderKeys'
          /\ (calls[i].branch = "generated" /\ calls[i].pc # "done" /\ calls'[i].pc = "done")
                => /\ calls'[i].isNew
                   /\ calls'[i].key = calls[i].generated
                   /\ PostInsert(i) \/ calls[i].encryptedKeys = {}
          /\ PostFails(i)
                => /\ calls'[i].pc = "failed"
                   /\ channelKeys' = channelKeys]_vars

\* A call that found no record has generated, stored, distributed and returned.
C9_Witness ==
    \E i \in CallIds :
        /\ calls[i].found = "empty" /\ calls[i].pc = "done" /\ calls[i].isNew
        /\ calls[i].encryptedKeys # {}
        /\ RoundRows(calls[i]) \subseteq senderKeys
        /\ channelKeys[calls[i].dev][calls[i].channelId] = exportAesKey(calls[i].generated)

\* C10: the step that unwraps a record addressed to the caller stores the
\* unwrapped key and returns it with isNew = false; a call that took the fetch
\* branch has generated no key and submitted no round.
C10_FetchBranch ==
    [][\A j \in CallIds :
          /\ calls[j].branch = "fetched"
                => /\ calls[j].pc = "done" /\ ~calls[j].isNew
                   /\ calls[j].generated = NoKey
                   /\ calls[j].encryptedKeys = {}
                   /\ \A row \in senderKeys : row.distributionId # calls[j].distributionId
          /\ ( /\ UnwrapAndStore(j)
               /\ decryptChannelKey(calls[j].rec.encryptedKey, PrivateKeyOf(calls[j].dev),
                                    calls[j].senderPublicKey) # NoKey )
                => /\ calls[j].found = "record"
                   /\ channelKeys'[calls[j].dev][calls[j].channelId]
                         = exportAesKey(importAesKey(calls[j].rec.encryptedKey.text))
                   /\ calls'[j].pc = "done" /\ calls'[j].branch = "fetched"
                   /\ calls'[j].key = importAesKey(calls[j].rec.encryptedKey.text)
                   /\ calls'[j].isNew = FALSE
                   /\ nextKey' = nextKey
                   /\ senderKeys' = senderKeys]_vars

\* A call has returned a key it unwrapped from a record, and the key is stored.
C10_Witness ==
    \E j \in CallIds :
        /\ calls[j].found = "record" /\ calls[j].pc = "done" /\ calls[j].branch = "fetched"
        /\ ~calls[j].isNew
        /\ channelKeys[calls[j].dev][calls[j].channelId] = exportAesKey(calls[j].key)

\* C11: a call that starts while the device's store holds a key for the channel
\* returns that key with isNew = false in its first step; the step changes no
\* key store, no cached peer key, no pre-key and no sender-key row, and the
\* call takes no further step (no records request, no bundle request, no round).
C11_CachedBranch ==
    [][/\ Len(calls') = Len(calls) + 1
          => LET r == calls'[Len(calls')]
             IN  channelKeys[r.dev][r.channelId] # NoKey
                 => /\ r.pc = "done" /\ r.branch = "cached"
                    /\ r.key = importAesKey(channelKeys[r.dev][r.channelId])
                    /\ r.isNew = FALSE
                    /\ UNCHANGED <<identity, channelKeys, userKeys, senderKeys, preKeys,
                                   nextKey, nextDistributionId>>
       /\ \A j \in CallIds : calls[j].branch = "cached" => calls'[j] = calls[j]]_vars

\* A call has returned the key an earlier call left in the store.
C11_Witness ==
    \E j \in CallIds :
        /\ calls[j].branch = "cached" /\ calls[j].pc = "done" /\ ~calls[j].isNew
        /\ channelKeys[calls[j].dev][calls[j].channelId] = exportAesKey(calls[j].key)

\* Calls i and k ran on two devices for one channel and both found neither a
\* local key nor a record: each generated a key and had its round accepted.
BothGenerated(i, k) ==
    /\ calls[i].dev # calls[k].dev /\ calls[i].channelId = calls[k].channelId
    /\ calls[i].found = "empty" /\ calls[k].found = "empty"
    /\ calls[i].pc = "done" /\ calls[k].pc = "done"
    /\ calls[i].encryptedKeys # {} /\ calls[k].encryptedKeys # {}

\* C12: two members that both found nothing hold distinct generated keys, each
\* in its own store, and the rows of both rounds are on the server together;
\* and a call about to read its records can be handed any one of the rows
\* addressed to it, so a third member can adopt either key.
C12_ForkIsPossible ==
    /\ \A i \in CallIds, k \in CallIds :
          BothGenerated(i, k)
          => /\ calls[i].generated # calls[k].generated
             /\ channelKeys[calls[i].dev][calls[i].channelId] = exportAesKey(calls[i].generated)
             /\ channelKeys[calls[k].dev][calls[k].channelId] = exportAesKey(calls[k].generated)
             /\ RoundRows(calls[i]) \cup RoundRows(calls[k]) \subseteq senderKeys
    /\ \A j \in CallIds :
          calls[j].pc = "fetch"
          => \A r \in SenderKeysFor(calls[j].channelId, calls[j].dev) :
                ENABLED (GetSenderKeysOk(j) /\ calls'[j].rec = r)

\* The fork: a and b generated different keys, both rounds are on the server,
\* and the third member has adopted one of the two, so that it and one of the
\* other two members hold different keys for the channel.
C12_Witness ==
    \E i \in CallIds, k \in CallIds, j \in CallIds :
        /\ BothGenerated(i, k)
        /\ calls[j].pc = "done" /\ calls[j].branch = "fetched"
        /\ calls[j].dev \notin {calls[i].dev, calls[k].dev}
        /\ calls[j].key = calls[k].generated
        /\ channelKeys[calls[j].dev][calls[j].channelId] = exportAesKey(calls[k].generated)
        /\ channelKeys[calls[i].dev][calls[i].channelId] = exportAesKey(calls[i].generated)
        /\ channelKeys[calls[i].dev][calls[i].channelId]
              # channelKeys[calls[j].dev][calls[j].channelId]

\* Call i left the fetch branch through its catch: the records request was
\* rejected, or a record was found and the distributor's bundle request was.
FellThrough(i) ==
    \/ calls[i].found = "error"
    \/ calls[i].found = "record" /\ calls[i].branch # "fetched" /\ calls[i].pc # "peer"
          /\ calls[i].pc # "bundle" /\ calls[i].pc # "unwrap"

Recipients(r) == {ek.forUserId : ek \in r.encryptedKeys}

\* C14: in the loop of distributeChannelKey a member whose public key is
\* resolved (from the cache or a bundle) is added to the round with the key
\* wrapped for it, a member whose bundle request fails is skipped and the loop
\* goes on without failing the call; the rows the server receives are one per
\* wrapped member and no other.
C14_PartialDistribution ==
    [][\A i \in CallIds :
          LET r == calls[i]
              q == calls'[i]
          IN  /\ r.pc \in {"member", "memberBundle"}
                    => /\ Recipients(r) \cap r.todo = {}
                       /\ Recipients(r) \cup r.todo \subseteq r.members
              /\ ((GetMemberKey(i) /\ userKeys[r.dev][NextMember(r.todo)] # NoKey)
                      \/ FetchMemberBundle(i))
                    => /\ Recipients(q) = Recipients(r) \cup {NextMember(r.todo)}
                       /\ q.todo = r.todo \ {NextMember(r.todo)}
                       /\ \E ek \in q.encryptedKeys :
                             /\ ek.forUserId = NextMember(r.todo)
                             /\ DecryptOk(ek.encryptedKey,
                                          deriveSharedKey(PrivateKeyOf(ek.forUserId),
                                                          PublicKeyOf(r.dev)))
                             /\ ek.encryptedKey.text = exportAesKey(r.generated)
              /\ MemberBundleFails(i)
                    => /\ q.encryptedKeys = r.encryptedKeys
                       /\ q.todo = r.todo \ {NextMember(r.todo)}
                       /\ q.pc \in {"member", "post", "done"}
                       /\ q.pc = "done" => q.isNew /\ q.key = r.generated
              /\ PostInsert(i)
                    => {row.forUserId : row \in {x \in senderKeys' :
                                                   x.distributionId = r.distributionId}}
                          = Recipients(r)]_vars

\* A round was accepted that leaves out a roster member whose bundle request
\* had failed, and the call returned normally.
C14_Witness ==
    \E i \in CallIds :
        /\ calls[i].pc = "done" /\ calls[i].isNew
        /\ Recipients(calls[i]) # {}
        /\ Recipients(calls[i]) # calls[i].members
        /\ {row.forUserId : row \in {x \in senderKeys :
                                       x.distributionId = calls[i].distributionId}}
              = Recipients(calls[i])

\* the server's rows of one distributor for one channel
RowsOf(rows, c, u) == {x \in rows : x.channelId = c /\ x.userId = u}

\* C15: when a distribution round of distributor D for channel C with
\* recipient set X completes, the server's rows for (C, D) are exactly the
\* rows of that round, one per recipient in X, and no row of an earlier round
\* of D is left.
C15_ReplaceSemantics ==
    [][\A i \in CallIds :
          PostInsert(i)
          => RowsOf(senderKeys', calls[i].channelId, calls[i].dev) = RoundRows(calls[i])]_vars

\* C16: a round takes effect as one step, so the server never holds rows of
\* two rounds of one distributor for one channel.
C16_ReplaceIsAtomic ==
    \A x \in senderKeys, y \in senderKeys :
        (x.channelId = y.channelId /\ x.userId = y.userId)
        => x.distributionId = y.distributionId

\* C17: the two statements of a distribution round change no row of another
\* distributor and no row of another channel, and no other step changes a row
\* at all; the records request of user u for channel c is answered from
\* exactly the rows of c addressed to u, whoever distributed them.
C17_DistributionFrame ==
    [][/\ \A i \in CallIds :
             (PostDelete(i) \/ PostInsert(i))
             => {x \in senderKeys  : ~(x.channelId = calls[i].channelId /\ x.userId = calls[i].dev)}
              = {x \in senderKeys' : ~(x.channelId = calls[i].channelId /\ x.userId = calls[i].dev)}
       /\ (\A i \in CallIds : ~PostDelete(i) /\ ~PostInsert(i)) => senderKeys' = senderKeys
       /\ \A i \in CallIds :
             GetSenderKeysOk(i)
             => LET answer == {x \in senderKeys : /\ x.channelId = calls[i].channelId
                                                  /\ x.forUserId = calls[i].dev}
                IN  /\ answer = {} <=> calls'[i].found = "empty"
                    /\ answer # {} => calls'[i].rec \in answer
                    /\ \A r \in answer : ENABLED (GetSenderKeysOk(i) /\ calls'[i].rec = r)]_vars

\* A round of a has been accepted next to the rows c distributed for the same
\* channel and for another channel, all of which are still there.
C17_Witness ==
    \E i \in CallIds :
        /\ calls[i].pc = "done" /\ calls[i].branch = "generated"
        /\ RoundRows(calls[i]) # {} /\ RoundRows(calls[i]) \subseteq senderKeys
        /\ LegacyRows \subseteq senderKeys
        /\ \E x \in LegacyRows : x.channelId = calls[i].channelId
        /\ \E x \in LegacyRows : x.channelId # calls[i].channelId

\* =================================================== key bundles: claims
\* the requests for user u's bundle that have been answered
AnsweredFor(u) ==
    {k \in DOMAIN bundleFetches : bundleFetches[k].userId = u /\ bundleFetches[k].pc = "done"}

\* C18: no one-time pre-key of a user is returned by two different bundle
\* requests, however the requests interleave; a pre-key that was returned is
\* no longer in the table.
C18_PreKeyNeverIssuedTwice ==
    \A u \in KeyUsers :
        \A f \in AnsweredFor(u) :
            bundleFetches[f].preKey # NoPreKey
            => /\ bundleFetches[f].preKey \notin preKeys[u]
               /\ \A g \in AnsweredFor(u) \ {f} : bundleFetches[g].preKey # bundleFetches[f].preKey

\* Two requests for one user's bundle have been answered, one with a pre-key.
C18_Witness ==
    \E u \in KeyUsers :
        /\ Cardinality(AnsweredFor(u)) >= 2
        /\ \E f \in AnsweredFor(u) : bundleFetches[f].preKey # NoPreKey

\* C19: a bundle request that finds pre-keys left returns one of them and
\* deletes exactly that one, so the first PreKeyPoolSize requests for a user
\* all return a pre-key.
C19_PreKeyExhaustion ==
    [][\A k \in DOMAIN bundleFetches :
          BundleRespond(k)
          => LET u == bundleFetches[k].userId
                 pk == bundleFetches'[k].preKey
             IN  /\ preKeys[u] # {} => /\ pk \in preKeys[u]
                                       /\ preKeys'[u] = preKeys[u] \ {pk}
                 /\ Cardinality(AnsweredFor(u)) < PreKeyPoolSize => pk # NoPreKey]_vars

\* ========================================================= codec: claims
\* C20: whatever the blob and however the call of ensureChannelKey ended,
\* decryptChannelMessage returns: the plaintext when the call returned a key
\* under which the blob verifies, the fixed placeholder in every other case.
C20_DecryptNeverThrows ==
    /\ \A x \in rendered :
          /\ x.result \in Plaintexts \cup {Placeholder}
          /\ x.result = IF calls[x.call].pc = "done" /\ x.blob.sealedWith = calls[x.call].key
                        THEN x.blob.text
                        ELSE Placeholder
    /\ \A i \in CallIds :
          (Finished(i) /\ \A x \in rendered : x.call # i)
          => \A blob \in Blobs : ENABLED DecryptReturn(i, blob)

\* decryptChannelMessage has returned the placeholder once because
\* ensureChannelKey threw and once because the blob did not verify under the
\* key the call returned.
C20_Witness ==
    \E x \in rendered, y \in rendered :
        /\ calls[x.call].pc = "failed" /\ x.result = Placeholder
        /\ calls[y.call].pc = "done" /\ y.blob.sealedWith # calls[y.call].key
        /\ y.result = Placeholder

\* C21: the ciphertext of every message:send envelope a client submits is
\* the output of encryptMessage on the typed text under a channel key; the
\* typed text itself is never what is sent.
C21_RelayNeverSeesPlaintext ==
    \A x \in submitted :
        x.ciphertext \in {encryptMessage(x.plaintext, [raw |-> n], iv) :
                             n \in 0..MaxCalls, iv \in WrapIvs}

\* ================================================== crypto.ts: claims
\* C22: decrypting what encryptMessage produced, under the key it was
\* produced with, succeeds and yields the very string that was encrypted.
C22_RoundTrip ==
    (roundTrip.pc = "decrypted" /\ roundTrip.with = roundTrip.key)
        => roundTrip.result = [ok |-> TRUE, text |-> roundTrip.message]

\* ================================================ relay, reactions: claims
\* C23: of the reaction:add frames one user sends for one (messageId, emoji)
\* only the first is persisted and broadcast: the reactions table never
\* holds two rows with the same messageId, userId and emoji.
C23_DuplicateReactionRejected ==
    \A r1 \in reactions, r2 \in reactions :
        (r1.messageId = r2.messageId /\ r1.userId = r2.userId /\ r1.emoji = r2.emoji)
            => r1.id = r2.id

\* ============================================ lib/websocket.ts: claims
\* C24: when the socket that is this.ws opens, the client hands it the auth
\* frame first and then one channel:join per channel of joinedChannels; and
\* whenever this.ws is open, the relay's entries for that connection hold the
\* client's user and exactly the channels of joinedChannels.
C24_ResubscribeOnOpen ==
    [][/\ \A k \in DOMAIN sockets :
            (OnOpen(k) /\ k = ws)
            => /\ clientOut'.sock = k
               /\ Len(clientOut'.frames) = 1 + Cardinality(joinedChannels)
               /\ clientOut'.frames[1] = AuthFrame(sockets[k].userId)
               /\ \A c \in joinedChannels :
                     \E i \in 2..Len(clientOut'.frames) : clientOut'.frames[i] = JoinFrame(c)
       /\ (ws' # NoWs /\ sockets'[ws'].readyState = "OPEN")
            => /\ relay'[ws'].userId # NoUserId
               /\ relay'[ws'].connections = joinedChannels'
               /\ relay'[ws'].channelIds = joinedChannels']_vars

\* a reconnect attempt has opened, and its auth frame and joins were sent
C24_Witness ==
    /\ ws >= 2 /\ sockets[ws].readyState = "OPEN" /\ Fired # {}
    /\ clientOut.sock = ws /\ Len(clientOut.frames) >= 2
    /\ clientOut.frames[1].type = "auth"
    /\ joinedChannels # {} /\ relay[ws].connections = joinedChannels

\* C25: reconnectAttempts never exceeds maxReconnectAttempts; a reconnect is
\* scheduled only while the counter is below the cap and counts as the next
\* attempt; the counter goes down only by the reset to 0 of a successful open.
C25_BoundedRetry ==
    [][/\ reconnectAttempts' <= MaxReconnectAttempts
       /\ Len(timeouts') > Len(timeouts)
            => /\ reconnectAttempts < MaxReconnectAttempts
               /\ reconnectAttempts' = reconnectAttempts + 1
               /\ Len(timeouts') = Len(timeouts) + 1
               /\ timeouts'[Len(timeouts')].attempt = reconnectAttempts'
       /\ reconnectAttempts' > reconnectAttempts => Len(timeouts') > Len(timeouts)
       /\ reconnectAttempts' < reconnectAttempts
            => (reconnectAttempts' = 0 /\ \E k \in DOMAIN sockets : OnOpen(k))]_vars

\* five attempts in a row failed and the client has stopped retrying
C25_Witness ==
    /\ reconnectAttempts = MaxReconnectAttempts
    /\ Len(timeouts) = MaxReconnectAttempts
    /\ \A i \in DOMAIN timeouts : timeouts[i].fired
    /\ \A k \in DOMAIN sockets : sockets[k].readyState = "CLOSED"

\* C26 as stated: the delay of a retry is min(1000 * 2^n, 30000) with n the
\* number of consecutive attempts already made, 0 for the first retry.
C26_DelayFromZero ==
    \A i \in DOMAIN timeouts :
        timeouts[i].delay = Min(1000 * 2^(timeouts[i].attempt - 1), 30000)

\* C26: the delay of a retry is min(1000 * 2^n, 30000) with n the number of
\* the attempt being scheduled, 1 for the first retry after an open; within
\* a run of attempts the delays never decrease, and none exceeds 30000.
C26_BackoffDelay ==
    /\ \A i \in DOMAIN timeouts :
          /\ timeouts[i].attempt \in 1..MaxReconnectAttempts
          /\ timeouts[i].delay = Min(1000 * 2^(timeouts[i].attempt), 30000)
          /\ timeouts[i].delay <= 30000
    /\ \A i \in DOMAIN timeouts :
          (i + 1 \in DOMAIN timeouts /\ timeouts[i + 1].attempt = timeouts[i].attempt + 1)
              => timeouts[i + 1].delay >= timeouts[i].delay

\* the fifth attempt in a row was scheduled at the capped delay
C26_Witness ==
    \E i \in DOMAIN timeouts :
        timeouts[i].attempt = MaxReconnectAttempts /\ timeouts[i].delay = 30000

\* C27: when a connection closes with the attempt cap reached, the client
\* tells its caller: its handlers are notified.
C27_OfflineIsSurfaced ==
    [][\A k \in DOMAIN sockets :
          (OnClose(k) /\ reconnectAttempts >= MaxReconnectAttempts)
              => emitted' # emitted]_vars

\* ============================================== relay, envelopes: claims
\* C28: a frame that is not a well-formed envelope of a known type is
\* answered with one error envelope to its sender, changes neither registry
\* and leaves the connection open.
C28_MalformedEnvelope ==
    [][\A s \in Socks, kind \in MalformedKinds :
          MalformedFrame(s, kind)
          => /\ \E msg \in {"Invalid message format", "Not authenticated"} :
                   out' = SendTo(s, ErrorEnv(msg))
             /\ UNCHANGED <<socketUsers, channelConnections>>
             /\ readyState'[s] = "OPEN"]_vars

\* ================================================ relay, join and leave
\* C29: on an authenticated connection a channel:join for a channel the
\* connection has joined, and a channel:leave for a channel it has left or
\* never joined, change neither registry; and a fan-out hands every open
\* subscriber exactly one message:new, however often it joined.
C29_JoinLeaveIdempotent ==
    [][/\ \A s \in Socks, c \in Chans :
            (/\ s \in DOMAIN socketUsers
             /\ c \in socketUsers[s].channelIds /\ s \in ChannelSockets(c)
             /\ ChannelJoin(s, c))
            => UNCHANGED <<socketUsers, channelConnections>>
       /\ \A s \in Socks, c \in Chans :
            (/\ s \in DOMAIN socketUsers
             /\ c \notin socketUsers[s].channelIds /\ s \notin ChannelSockets(c)
             /\ ChannelLeave(s, c))
            => UNCHANGED <<socketUsers, channelConnections>>
       /\ \A h \in pending :
            MessageBroadcast(h)
            => \A t \in Socks :
                  Len(out'[t]) = IF t \in OpenSubscribers(h.channelId) THEN 1 ELSE 0]_vars

\* the relay has handled MaxFrames frames (auth, channel:join twice and
\* message:send is one way there): one connection is subscribed to one channel
\* and was handed the one message:new
C29_Witness ==
    \E s \in Socks, c \in Chans :
        /\ nframes = MaxFrames
        /\ DOMAIN socketUsers = {s} /\ socketUsers[s].channelIds = {c}
        /\ ChannelSockets(c) = {s}
        /\ delivered[s] = <<1>>

\* ======================================================= relay, no queuing
\* C30: a message:new or typing:update for a channel is handed only to
\* connections that are open and subscribed to the channel in the step of
\* the fan-out; each stored message is fanned out in one step only, so a
\* connection that joins later is not sent it, and a channel:join is
\* answered with channel:joined and nothing else.
BroadcastTypes == {"message:new", "typing:update"}

C31_SenderBinding ==
    [][/\ \A s \in Socks, c \in Chans, ct \in Ciphertexts :
            (s \in DOMAIN socketUsers /\ MessageSend(s, c, ct))
            => \E h \in pending' \ pending :
                  /\ h.sock = s /\ h.userId = socketUsers[s].userId
                  /\ pending' = pending \cup {h}
       /\ \A h \in pending, g \in pending' : h.n = g.n => g.userId = h.userId
       /\ \A h \in pending :
            MessageInserted(h) => messages'[Len(messages')].senderId = h.userId
       /\ \A h \in pending :
            MessageBroadcast(h)
            => /\ messages[h.id].senderId = h.userId
               /\ \A t \in Socks : \A i \in DOMAIN out'[t] :
                     out'[t][i].senderId = h.userId]_vars

\* a connection sent a message, authenticated again as another user while the
\* handler was suspended, and was then handed the message:new, which carries
\* the user of the first auth
C31_Witness ==
    \E s \in Socks :
        /\ DOMAIN socketUsers = {s} /\ Len(messages) = 1
        /\ messages[1].senderId # socketUsers[s].userId
        /\ out[s] # << >> /\ out[s][1].type = "message:new"
        /\ out[s][1].senderId = messages[1].senderId

\* ============================================ key broker, concurrent calls
\* the key wrapped in a distribution record
WrappedKeyOf(r) == r.encryptedKey.text

\* C32: once every ensureChannelKey call has returned, the key wrapped in
\* the distribution records a device has on the server for a channel is the
\* key in that device's local store for the channel.
C32_LocalKeyMatchesDistribution ==
    (\A i \in CallIds : Finished(i))
    => \A r \in senderKeys : WrappedKeyOf(r) = channelKeys[r.userId][r.channelId]

\* the server accepted the distribution request of call i
RoundAccepted(i) ==
    calls[i].pc = "done" /\ calls[i].branch = "generated" /\ calls[i].encryptedKeys # {}

\* C33: when a call of ensureChannelKey has returned and the device's local
\* store holds the key that call generated, the server has accepted a
\* distribution round carrying that key.
C33_NoUndistributedKey ==
    \A i \in CallIds :
        (/\ Finished(i) /\ calls[i].branch = "generated"
         /\ channelKeys[calls[i].dev][calls[i].channelId] = exportAesKey(calls[i].generated))
        => RoundAccepted(i)

\* ================================================ client, explicit disconnect
\* disconnect() was called and neither the caller nor a timer has called
\* connect since: this.ws is null although a socket was created
Disconnected == ws = NoWs /\ sockets # << >>

\* C34: once disconnect() has been called, no step schedules a reconnect,
\* and the only step that creates a socket is a connect(userId) of the caller.
C34_DisconnectIsFinal ==
    [][Disconnected
       => /\ Len(timeouts') = Len(timeouts)
          /\ (Len(sockets') > Len(sockets) => \E u \in ClientUserIds : Connect(u))]_vars

\* ================================================== relay, per-sender order
\* The relay from the state where s1 is authenticated and subscribed to c1,
\* receiving only message:send frames of s1; the sender numbers its messages,
\* the k-th frame carrying ciphertext k.
SendNumbered(s, c) == MessageSend(s, c, nframes + 1)

NextOrder ==
    \/ \E c \in Chans : SendNumbered("s1", c)
    \/ \E h \in pending : MessageInserted(h)
    \/ \E h \in pending : MessageInsertFails(h)
    \/ \E h \in pending : SenderLookupFails(h)
    \/ \E h \in pending : MessageBroadcast(h)

SpecOrder == InitJoined /\ [][NextOrder]_vars

\* C35: a subscriber that received message:new for two messages one
\* connection sent to the same channel received them in the order sent.
C35_PerSenderOrder ==
    \A t \in Socks : \A i, j \in DOMAIN delivered[t] :
        (/\ i < j
         /\ messages[delivered[t][i]].channelId = messages[delivered[t][j]].channelId)
        => messages[delivered[t][i]].ciphertext < messages[delivered[t][j]].ciphertext

\* ====================================== relay, reactions under concurrency
\* a row for the tuple of handler h exists
RowExistsFor(h) ==
    \E r \in reactions :
        r.messageId = h.messageId /\ r.userId = h.userId /\ r.emoji = h.emoji

\* C36: however the handlers of concurrent reaction:add frames interleave,
\* no handler inserts a row and broadcasts reaction:added for a (messageId,
\* userId, emoji) that already has a row.
C36_ReactionUniqueness ==
    [][\A h \in pending : ReactionInserted(h) => ~RowExistsFor(h)]_vars

\* ============================================== key broker, peer key cache
\* The key broker when device a has met b before: a holds b's public key in
\* userKeys, no other key is cached anywhere, and no bundle has been served
\* yet.
InitTofu ==
    /\ InitServer
    /\ identity = [d \in KeyUsers |-> [userId |-> d]]
    /\ channelKeys = [d \in KeyUsers |-> [c \in KeyChans |-> NoKey]]
    /\ userKeys = [d \in KeyUsers |-> [u \in KeyUsers |->
                      IF d = "a" /\ u = "b" THEN BundleIdentityKey(u) ELSE NoKey]]
    /\ senderKeys = {}
    /\ preKeys = [u \in KeyUsers |-> 1..PreKeyPoolSize]
    /\ nextKey = 1
    /\ nextDistributionId = 1
    /\ calls = << >>
    /\ bundleFetches = << >>
    /\ rendered = {}
    /\ submitted = {}
    /\ roundTrip = [pc |-> "idle"]
    /\ InitWs

SpecTofu == InitTofu /\ [][NextKeys]_vars

\* C37: a lookup of a peer's public key that finds it in the cache is
\* followed by the unwrap, or the wrap, with the cached key, with no bundle
\* request and no pre-key consumed; and no step of ensureChannelKey or
\* distributeChannelKey changes a key the cache holds.
C37_TrustOnFirstUse ==
    [][/\ \A i \in CallIds :
            (/\ calls[i].pc = "peer" /\ calls'[i] # calls[i]
             /\ userKeys[calls[i].dev][calls[i].rec.userId] # NoKey)
            => /\ calls'[i].pc = "unwrap"
               /\ calls'[i].senderPublicKey = userKeys[calls[i].dev][calls[i].rec.userId]
               /\ UNCHANGED <<preKeys, userKeys>>
       /\ \A i \in CallIds :
            (/\ calls[i].pc = "member" /\ calls'[i] # calls[i]
             /\ userKeys[calls[i].dev][NextMember(calls[i].todo)] # NoKey)
            => LET m == NextMember(calls[i].todo)
               IN  /\ calls'[i].pc # "memberBundle"
                   /\ \E iv \in WrapIvs :
                         Wrapped(calls[i], m, userKeys[calls[i].dev][m], iv)
                            \in calls'[i].encryptedKeys
                   /\ UNCHANGED <<preKeys, userKeys>>
       /\ \A d, u \in KeyUsers :
            userKeys[d][u] # NoKey => userKeys'[d][u] = userKeys[d][u]]_vars

\* device a distributed a generated key wrapped for its own user, whose
\* bundle it had to request, and for b, whose key it had cached: the pre-keys
\* of b are all still there
C37_Witness ==
    \E i \in CallIds :
        /\ calls[i].dev = "a" /\ calls[i].pc = "done" /\ calls[i].branch = "generated"
        /\ {ek.forUserId : ek \in calls[i].encryptedKeys} = Callers
        /\ \E r \in senderKeys : r.userId = "a" /\ r.forUserId = "b"
        /\ preKeys["a"] = {}
        /\ preKeys["b"] = 1..PreKeyPoolSize

\* ============================================ key broker, missing identity
\* call i ended at the identity check: it made no request and took no branch
FailedAtIdentity(i) ==
    calls[i].pc = "failed" /\ calls[i].found = "unknown" /\ calls[i].branch = "none"

\* C38: ensureChannelKey called on a device that holds neither a key for the
\* channel nor identity keys fails in that step, before any request, with the
\* device's stores and the server's records and pre-keys unchanged; the
\* failed call takes no further step.
C38_MissingIdentity ==
    [][/\ \A d \in KeyUsers, c \in KeyChans, members \in Rosters :
            (/\ EnsureChannelKey(d, c, members)
             /\ channelKeys[d][c] = NoKey /\ identity[d] = NoKey)
            => /\ Len(calls') = Len(calls) + 1
               /\ calls'[Len(calls')].pc = "failed"
               /\ calls'[Len(calls')].found = "unknown"
               /\ calls'[Len(calls')].branch = "none"
               /\ UNCHANGED <<identity, channelKeys, userKeys, senderKeys, preKeys,
                              nextKey, nextDistributionId, bundleFetches>>
       /\ \A i \in CallIds : FailedAtIdentity(i) => calls'[i] = calls[i]]_vars

\* a device without identity keys and without the channel's key called
\* ensureChannelKey while the server held records of the channel, and failed
C38_Witness ==
    \E i \in CallIds :
        /\ FailedAtIdentity(i)
        /\ identity[calls[i].dev] = NoKey
        /\ channelKeys[calls[i].dev][calls[i].channelId] = NoKey
        /\ \E r \in senderKeys : r.channelId = calls[i].channelId

\* ============================================== key store, presence check
\* the two JavaScript values a lookup can compare with
Undefined == [absent |-> "undefined"]
Null == [absent |-> "null"]

\* db.channelKeys.get(channelId) on device d: the row, or undefined
ChannelKeysGet(d, c) ==
    IF channelKeys[d][c] = NoKey THEN Undefined
    ELSE [channelId |-> c, keyBase64 |-> channelKeys[d][c]]

\* hasChannelKey(channelId) on device d: stored !== null
hasChannelKey(d, c) == ChannelKeysGet(d, c) # Null

\* canEncryptInChannel(channelId) on device d
canEncryptInChannel(d, c) == hasChannelKey(d, c)

\* clearAllKeys() on device d, called at logout with no call in flight
clearAllKeys(d) ==
    /\ \A i \in CallIds : calls[i].dev = d => Finished(i)
    /\ identity' = [identity EXCEPT ![d] = NoKey]
    /\ channelKeys' = [channelKeys EXCEPT ![d] = [c \in KeyChans |-> NoKey]]
    /\ userKeys' = [userKeys EXCEPT ![d] = [u \in KeyUsers |-> NoKey]]
    /\ UNCHANGED <<senderKeys, preKeys, nextKey, nextDistributionId, calls>>
    /\ UNCHANGED <<serverVars, bundleFetches, rendered, submitted, roundTrip, wsVars>>

NextLogout ==
    \/ NextKeys
    \/ \E d \in Callers : clearAllKeys(d)

SpecLogout == Init /\ [][NextLogout]_vars

\* C39: canEncryptInChannel answers true for a channel exactly when
\* getChannelKey returns a key for it, so false for a channel never stored
\* and for every channel after clearAllKeys.
C39_KeyPresenceCheck ==
    \A d \in KeyUsers, c \in KeyChans :
        canEncryptInChannel(d, c) <=> getChannelKey(d, c) # NoKey

====
